---- MODULE Spec2Model ----
(***************************************************************************)
(* State-machine model of the Vulkan backend in src/ggml-vulkan.cpp:       *)
(* device buffers, the buffer pool, the pinned-host registry, pipelines    *)
(* with their descriptor sets, the three queues, and the operator          *)
(* dispatcher ggml_vk_compute_forward with the operators it routes to.     *)
(***************************************************************************)
EXTENDS Integers, Sequences, FiniteSets, TLC

\* ------------------------------------------------------------------------
\* Bounds of the model
\* ------------------------------------------------------------------------
\* number of slots of g_vk_buffer_pool explored (MAX_VK_BUFFERS is 256 in the source)
MAX_VK_BUFFERS == 2
\* number of device buffers that can be alive at once
MaxBufferIds == 16
\* number of buffers a direct caller of the pool holds at once
MaxHeld == 2
\* largest request size of a direct pool_malloc / host_malloc call
MaxSize == 3
\* number of recorded calls in the recycling scenario
MaxHist == 4
\* number of simultaneously registered pinned allocations
MaxPinned == 2
\* largest batch count ne02 * ne03 of a graph node
MaxBatch == 2
\* number of tensors resident on the device at once
MaxTensors == 1
\* number of ggml_vk_compute_forward calls in one behaviour of the operator sequences
MaxCalls == 2
\* command buffers taken from transfer queue 0 by successive ggml_vk_transform_tensor calls
MaxCmdBuffers == 1
\* bytes of the pinned arena the host allocates for tensor data
ArenaSize == 1048576
\* bytes of the larger mapping the host asks ggml_vk_host_malloc for (byte-level model)
MaxBytes == 40
\* blocks per row and rows of the tensors uploaded in the byte-level model
MaxRow == 2
MaxRows == 2
\* synchronous reads after an upload in the byte-level model
MaxReads == 2
\* bytes of a row of the zero-padded writes
MaxWidth == 3

\* ------------------------------------------------------------------------
\* Program constants
\* ------------------------------------------------------------------------
\* (~0U); any value that is no queue family index
VK_QUEUE_FAMILY_IGNORED == -1
\* std::numeric_limits<size_t>::max(), here the largest integer of the model
SIZE_MAX == 2147483647
\* distance between the host addresses of two mapped buffers (larger than any buffer)
AddrStride == 2^24
VK_SUBMIT_BATCH == 3
VK_DEVICE_DESCRIPTOR_POOL_MODE_UNKNOWN == 0
VK_DEVICE_DESCRIPTOR_POOL_MODE_MULTI == 1
VK_DEVICE_DESCRIPTOR_POOL_MODE_SINGLE == 2
\* vk_device.properties.limits.minStorageBufferOffsetAlignment of the device explored
minStorageBufferOffsetAlignment == 64

DeviceLocal == "eDeviceLocal"
HostVisible == "eHostVisible"
HostCoherent == "eHostCoherent"
HostCached == "eHostCached"

GGML_TYPE_F32 == "GGML_TYPE_F32"
GGML_TYPE_F16 == "GGML_TYPE_F16"
GGML_TYPE_Q4_0 == "GGML_TYPE_Q4_0"
GGML_TYPE_Q8_0 == "GGML_TYPE_Q8_0"
GGML_TYPE_I32 == "GGML_TYPE_I32"

GGML_BACKEND_CPU == "GGML_BACKEND_CPU"
GGML_BACKEND_GPU == "GGML_BACKEND_GPU"
GGML_BACKEND_GPU_SPLIT == "GGML_BACKEND_GPU_SPLIT"

GGML_OP_ADD == "GGML_OP_ADD"
GGML_OP_MUL == "GGML_OP_MUL"
GGML_OP_MUL_MAT == "GGML_OP_MUL_MAT"

GGML_TASK_INIT == "GGML_TASK_INIT"
GGML_TASK_COMPUTE == "GGML_TASK_COMPUTE"
GGML_TASK_FINALIZE == "GGML_TASK_FINALIZE"

VARIABLES
    live,               \* handles of device buffers created and not destroyed
    g_vk_buffer_pool,   \* the buffer pool: slot index -> vk_buffer
    vk_pinned_memory,   \* the pinned registry: sequence of <<ptr, size, vk_buffer>>
    no_pinned,          \* environment variable GGML_VK_NO_PINNED is set
    held,               \* buffers a direct caller got from pool_malloc and still owns
    host_ptrs,          \* pointers returned by host_malloc and not yet passed to host_free
    vk_device,          \* the device: descriptor set mode and the three queues
    vk_pipeline,        \* the pipelines: name -> descriptor pools, sets and cursor
    tensors,            \* tensors made resident on the device by transform_tensor
    call,               \* the ggml_vk_compute_forward call in progress or last finished
    last,               \* record of the last pool / registry call (history)
    hist,               \* recorded calls of the recycling scenario (history)
    memory,             \* contents of the buffers: handle -> bytes (byte-level specification)
    gpu,                \* the submissions the device has not finished (device-level specification)
    threads             \* the threads inside the backend and the locks they hold (concurrency specifications)

poolVars == <<g_vk_buffer_pool, held>>
hostVars == <<vk_pinned_memory, no_pinned, host_ptrs>>
opVars == <<vk_device, vk_pipeline, tensors, call>>
histVars == <<last, hist>>
devVars == <<memory, gpu, threads>>
vars == <<live, g_vk_buffer_pool, vk_pinned_memory, no_pinned, held, host_ptrs,
          vk_device, vk_pipeline, tensors, call, last, hist, memory, gpu, threads>>

\* no buffer content is tracked; nothing is in flight on the device; one thread, not tracked
NoMemory == <<>>
NoGpu == <<>>
NoThreads == <<>>

\* ------------------------------------------------------------------------
\* vk_buffer
\* ------------------------------------------------------------------------
PoolIdx == 0..(MAX_VK_BUFFERS - 1)

\* a zero-initialised vk_buffer (static storage of g_vk_buffer_pool)
ZeroBuffer ==
    [buffer |-> 0, device_memory |-> 0, memory_property_flags |-> {}, ptr |-> 0,
     size |-> 0, sb_write |-> 0, sb_read |-> 0, qf_owner |-> 0]

\* the handle the device returns for a new buffer: one that no live buffer has
\* (the lowest such, 0 if the device is out of handles)
FreshHandle(lv) ==
    IF (1..MaxBufferIds) \subseteq lv THEN 0
    ELSE CHOOSE h \in (1..MaxBufferIds) \ lv : \A k \in (1..MaxBufferIds) \ lv : h <= k

\* host address at which the memory of buffer handle h is mapped
MappedPtr(h) == h * AddrStride

\* variant that maps the memory whatever the flags are
ggml_vk_create_buffer_AlwaysMapped(h, size, req_flags) ==
    [buffer |-> h, device_memory |-> h, memory_property_flags |-> req_flags,
     ptr |-> MappedPtr(h),
     size |-> size, sb_write |-> 0, sb_read |-> 0,
     qf_owner |-> VK_QUEUE_FAMILY_IGNORED]

\* ggml_vk_create_buffer(size, req_flags), h being the handle the device returns
ggml_vk_create_buffer(h, size, req_flags) ==
    [buffer |-> h, device_memory |-> h, memory_property_flags |-> req_flags,
     ptr |-> IF HostVisible \in req_flags THEN MappedPtr(h) ELSE 0,
     size |-> size, sb_write |-> 0, sb_read |-> 0,
     qf_owner |-> VK_QUEUE_FAMILY_IGNORED]

\* handles released by ggml_vk_destroy_buffer(buf)
DestroyedHandles(buf) ==
    {buf.buffer} \cup (IF buf.sb_write # 0 THEN {buf.sb_write} ELSE {})
                 \cup (IF buf.sb_read # 0 THEN {buf.sb_read} ELSE {})

\* the vk_buffer struct as ggml_vk_destroy_buffer(buf) leaves it
ggml_vk_destroy_buffer(buf) ==
    [buf EXCEPT !.size = 0, !.sb_write = 0, !.sb_read = 0]

\* ------------------------------------------------------------------------
\* Buffer pool
\* ------------------------------------------------------------------------
\* variants of the scan loop with a changed comparison
RECURSIVE PoolScan_FirstFit(_, _, _, _)
PoolScan_FirstFit(pool, size, i, acc) ==
    IF i >= MAX_VK_BUFFERS THEN acc
    ELSE LET b == pool[i]
             a1 == IF b.size > 0 /\ b.size >= size /\ acc.best_i = -1
                   THEN [acc EXCEPT !.best_i = i, !.best_size = b.size]
                   ELSE acc
             a2 == IF b.size > 0 /\ b.size > a1.worst_size
                   THEN [a1 EXCEPT !.worst_i = i, !.worst_size = b.size]
                   ELSE a1
         IN PoolScan_FirstFit(pool, size, i + 1, a2)

RECURSIVE PoolScan_SmallestVictim(_, _, _, _)
PoolScan_SmallestVictim(pool, size, i, acc) ==
    IF i >= MAX_VK_BUFFERS THEN acc
    ELSE LET b == pool[i]
             a1 == IF b.size > 0 /\ b.size >= size /\ b.size < acc.best_size
                   THEN [acc EXCEPT !.best_i = i, !.best_size = b.size]
                   ELSE acc
             a2 == IF b.size > 0 /\ (a1.worst_i = -1 \/ b.size < a1.worst_size)
                   THEN [a1 EXCEPT !.worst_i = i, !.worst_size = b.size]
                   ELSE a1
         IN PoolScan_SmallestVictim(pool, size, i + 1, a2)

RECURSIVE PoolScan_ExactFit(_, _, _, _)
PoolScan_ExactFit(pool, size, i, acc) ==
    IF i >= MAX_VK_BUFFERS THEN acc
    ELSE LET b == pool[i]
             a1 == IF b.size > 0 /\ b.size = size /\ b.size < acc.best_size
                   THEN [acc EXCEPT !.best_i = i, !.best_size = b.size]
                   ELSE acc
             a2 == IF b.size > 0 /\ b.size > a1.worst_size
                   THEN [a1 EXCEPT !.worst_i = i, !.worst_size = b.size]
                   ELSE a1
         IN PoolScan_ExactFit(pool, size, i + 1, a2)

\* the scan loop of ggml_vk_pool_malloc from slot i on; acc = [best_i, best_size, worst_i, worst_size]
RECURSIVE PoolScan(_, _, _, _)
PoolScan(pool, size, i, acc) ==
    IF i >= MAX_VK_BUFFERS THEN acc
    ELSE LET b == pool[i]
             a1 == IF b.size > 0 /\ b.size >= size /\ b.size < acc.best_size
                   THEN [acc EXCEPT !.best_i = i, !.best_size = b.size]
                   ELSE acc
             a2 == IF b.size > 0 /\ b.size > a1.worst_size
                   THEN [a1 EXCEPT !.worst_i = i, !.worst_size = b.size]
                   ELSE a1
         IN PoolScan(pool, size, i + 1, a2)

ScanStart == [best_i |-> -1, best_size |-> SIZE_MAX, worst_i |-> -1, worst_size |-> 0]

\* variant of pool_malloc that leaves the slot of the buffer it hands out untouched
ggml_vk_pool_malloc_KeepSlot(pool, size, alloc_flags, h) ==
    LET s == PoolScan(pool, size, 0, ScanStart) IN
    IF s.best_i # -1
    THEN [buf |-> pool[s.best_i], pool |-> pool, destroyed |-> {}, created |-> {}]
    ELSE [buf |-> ggml_vk_create_buffer(h, size, {DeviceLocal} \cup alloc_flags),
          pool |-> IF s.worst_i # -1
                   THEN [pool EXCEPT ![s.worst_i] = ggml_vk_destroy_buffer(pool[s.worst_i])]
                   ELSE pool,
          destroyed |-> IF s.worst_i # -1 THEN DestroyedHandles(pool[s.worst_i]) ELSE {},
          created |-> {h}]

\* ggml_vk_pool_malloc(size, buf, alloc_flags) on pool `pool`, h being the next fresh handle:
\* the buffer stored to *buf, the pool afterwards, the handles destroyed and created
ggml_vk_pool_malloc(pool, size, alloc_flags, h) ==
    LET s == PoolScan(pool, size, 0, ScanStart) IN
    IF s.best_i # -1
    THEN [buf |-> pool[s.best_i],
          pool |-> [pool EXCEPT ![s.best_i].size = 0],
          destroyed |-> {}, created |-> {}]
    ELSE [buf |-> ggml_vk_create_buffer(h, size, {DeviceLocal} \cup alloc_flags),
          pool |-> IF s.worst_i # -1
                   THEN [pool EXCEPT ![s.worst_i] = ggml_vk_destroy_buffer(pool[s.worst_i])]
                   ELSE pool,
          destroyed |-> IF s.worst_i # -1 THEN DestroyedHandles(pool[s.worst_i]) ELSE {},
          created |-> {h}]

\* variant of the slot search that takes the last empty slot
RECURSIVE FirstEmptySlot_Last(_, _)
FirstEmptySlot_Last(pool, i) ==
    IF i >= MAX_VK_BUFFERS THEN -1
    ELSE IF pool[MAX_VK_BUFFERS - 1 - i].size = 0 THEN MAX_VK_BUFFERS - 1 - i
    ELSE FirstEmptySlot_Last(pool, i + 1)

\* first slot of the pool with size 0, or -1 (the loop of ggml_vk_pool_free)
RECURSIVE FirstEmptySlot(_, _)
FirstEmptySlot(pool, i) ==
    IF i >= MAX_VK_BUFFERS THEN -1
    ELSE IF pool[i].size = 0 THEN i
    ELSE FirstEmptySlot(pool, i + 1)

\* variant of pool_free that destroys the buffer without its staging siblings
ggml_vk_pool_free_KeepSiblings(pool, buffer) ==
    LET i == FirstEmptySlot(pool, 0) IN
    IF i # -1
    THEN [pool |-> [pool EXCEPT ![i] = [buffer EXCEPT !.qf_owner = VK_QUEUE_FAMILY_IGNORED]],
          destroyed |-> {}, warned |-> FALSE]
    ELSE [pool |-> pool, destroyed |-> {buffer.buffer}, warned |-> TRUE]
\* ggml_vk_pool_free(buffer): the pool afterwards and the handles destroyed
ggml_vk_pool_free(pool, buffer) ==
    LET i == FirstEmptySlot(pool, 0) IN
    IF i # -1
    THEN [pool |-> [pool EXCEPT ![i] = [buffer EXCEPT !.qf_owner = VK_QUEUE_FAMILY_IGNORED]],
          destroyed |-> {}, warned |-> FALSE]
    ELSE [pool |-> pool, destroyed |-> DestroyedHandles(buffer), warned |-> TRUE]

\* ------------------------------------------------------------------------
\* Pinned host memory
\* ------------------------------------------------------------------------
RemoveAt(s, k) == [i \in 1..(Len(s) - 1) |-> IF i < k THEN s[i] ELSE s[i + 1]]

\* variant of the lookup that compares the base address only
RECURSIVE PinnedIndex_BaseOnly(_, _, _)
PinnedIndex_BaseOnly(reg, ptr, i) ==
    IF i > Len(reg) THEN 0
    ELSE IF ptr = reg[i][1] THEN i
    ELSE PinnedIndex_BaseOnly(reg, ptr, i + 1)

\* index of the first registry entry whose range [addr, addr + size) holds ptr, or 0
RECURSIVE PinnedIndex(_, _, _)
PinnedIndex(reg, ptr, i) ==
    IF i > Len(reg) THEN 0
    ELSE IF ptr >= reg[i][1] /\ ptr < reg[i][1] + reg[i][2] THEN i
    ELSE PinnedIndex(reg, ptr, i + 1)

\* ggml_vk_host_malloc(size): the pointer returned, the registry afterwards, handles created
ggml_vk_host_malloc(reg, nopin, size, h) ==
    IF nopin
    THEN [ptr |-> 0, reg |-> reg, created |-> {}]
    ELSE LET buf == ggml_vk_create_buffer(h, size, {HostVisible, HostCoherent, HostCached}) IN
         IF HostVisible \notin buf.memory_property_flags
         THEN [ptr |-> 0, reg |-> reg, created |-> {}]
         ELSE [ptr |-> buf.ptr, reg |-> Append(reg, <<buf.ptr, size, buf>>), created |-> {h}]

\* ggml_vk_host_free(ptr): the registry afterwards and the handles destroyed
ggml_vk_host_free(reg, ptr) ==
    LET index == PinnedIndex(reg, ptr, 1) IN
    IF index = 0
    THEN [reg |-> reg, destroyed |-> {}, warned |-> TRUE]
    ELSE [reg |-> RemoveAt(reg, index), destroyed |-> DestroyedHandles(reg[index][3]),
          warned |-> FALSE]

\* a pointer of the ordinary heap: below the address of every mapped buffer
HeapPtr == 1

\* ------------------------------------------------------------------------
\* ggml types and tensors
\* ------------------------------------------------------------------------
ggml_is_quantized(type) == type \in {GGML_TYPE_Q4_0, GGML_TYPE_Q8_0}

\* bytes of one block of the type
ggml_type_size(type) ==
    CASE type = GGML_TYPE_F32 -> 4
      [] type = GGML_TYPE_F16 -> 2
      [] type = GGML_TYPE_Q4_0 -> 18
      [] type = GGML_TYPE_Q8_0 -> 34
      [] OTHER -> 4

\* elements of one block of the type
ggml_blck_size(type) == IF ggml_is_quantized(type) THEN 32 ELSE 1

CEIL_DIV(M, N) == (M + N - 1) \div N

ggml_vk_align_size(width, align) == CEIL_DIV(width, align) * align

\* a tensor: ne[1..4] are ne[0..3] of the source; data is the host address of the
\* elements; buf is the vk_buffer tensor->data points to when the tensor is on the device
NoTensor == [type |-> GGML_TYPE_F32, backend |-> GGML_BACKEND_CPU, ne |-> <<0, 0, 0, 0>>,
             data |-> 0, buf |-> ZeroBuffer]

\* byte strides of a contiguous tensor: nb[2] and nb[3] of the source
nb2(t) == ((ggml_type_size(t.type) * t.ne[1]) \div ggml_blck_size(t.type)) * t.ne[2]
nb3(t) == nb2(t) * t.ne[3]

\* (char *) t->data + i2*nb2 + i3*nb3
TensorPtr(t, i2, i3) == t.data + i2 * nb2(t) + i3 * nb3(t)

\* ------------------------------------------------------------------------
\* Pipelines
\* ------------------------------------------------------------------------
NoPipeline == "nullptr"

MatmulPipelines ==
    {"matmul_f32_l", "matmul_f32_m", "matmul_f32_s",
     "matmul_f32_aligned_l", "matmul_f32_aligned_m", "matmul_f32_aligned_s",
     "matmul_f16_l", "matmul_f16_m", "matmul_f16_s",
     "matmul_f16_aligned_l", "matmul_f16_aligned_m", "matmul_f16_aligned_s",
     "matmul_f16_f32_l", "matmul_f16_f32_m", "matmul_f16_f32_s",
     "matmul_f16_f32_aligned_l", "matmul_f16_f32_aligned_m", "matmul_f16_f32_aligned_s"}

PipelineNames ==
    MatmulPipelines \cup
    {"matmul_split_k_reduce", "dequant_mul_mat_vec_f16", "dequant_mul_mat_vec_q4_0",
     "dequant_mul_mat_vec_f16_f32", "dequant_mul_mat_vec_q4_0_f32", "mul_f32",
     "f32_to_f16", "dequant_q4_0"}

\* the vk_pipeline ggml_vk_create_pipeline returns: descriptor pools and sets are counted
ggml_vk_create_pipeline(mode) ==
    [descriptor_pools |-> IF mode = VK_DEVICE_DESCRIPTOR_POOL_MODE_MULTI THEN 1 ELSE 0,
     descriptor_sets |-> 0,
     descriptor_set_index |-> 0]

\* ggml_vk_pipeline_allocate_descriptor_sets(pipeline, n)
ggml_vk_pipeline_allocate_descriptor_sets(pipeline, n, mode) ==
    IF pipeline.descriptor_sets >= n THEN pipeline
    ELSE IF mode = VK_DEVICE_DESCRIPTOR_POOL_MODE_MULTI
         THEN [pipeline EXCEPT !.descriptor_sets = @ + (n - pipeline.descriptor_sets)]
         ELSE [pipeline EXCEPT !.descriptor_pools = @ + (n - pipeline.descriptor_sets),
                               !.descriptor_sets = n]

ggml_vk_pipeline_cleanup(pipeline) == [pipeline EXCEPT !.descriptor_set_index = 0]

\* ggml_vk_dispatch_pipeline: the cursor after taking descriptor_sets[descriptor_set_index++]
ggml_vk_dispatch_pipeline(pipeline) == [pipeline EXCEPT !.descriptor_set_index = @ + 1]

ggml_vk_get_to_fp16(type) ==
    CASE type = GGML_TYPE_Q4_0 -> "dequant_q4_0"
      [] type = GGML_TYPE_F32 -> "f32_to_f16"
      [] OTHER -> NoPipeline

ggml_vk_get_dequantize_mul_mat_vec(type, f16_y) ==
    CASE type = GGML_TYPE_Q4_0 ->
            IF f16_y THEN "dequant_mul_mat_vec_q4_0" ELSE "dequant_mul_mat_vec_q4_0_f32"
      [] type = GGML_TYPE_F16 ->
            IF f16_y THEN "dequant_mul_mat_vec_f16" ELSE "dequant_mul_mat_vec_f16_f32"
      [] OTHER -> NoPipeline

ggml_vk_guess_split_k(m, n, k) == IF k > 128 /\ (m < 128 \/ n < 128) THEN 4 ELSE 1

\* the align the matmul pipelines of each size are created with
ggml_vk_guess_matmul_pipeline_align(m, n) ==
    IF m <= 32 \/ n <= 32 THEN 32
    ELSE IF m <= 64 \/ n <= 64 THEN 64
    ELSE 128

\* the pipeline chosen, NoPipeline where the source asserts
ggml_vk_guess_matmul_pipeline(bit16_x, bit16_y, m, n, aligned) ==
    LET sz == IF m <= 32 \/ n <= 32 THEN "s" ELSE IF m <= 64 \/ n <= 64 THEN "m" ELSE "l" IN
    IF bit16_x /\ bit16_y
    THEN (IF aligned THEN "matmul_f16_aligned_" ELSE "matmul_f16_") \o sz
    ELSE IF bit16_x /\ ~bit16_y
    THEN (IF aligned THEN "matmul_f16_f32_aligned_" ELSE "matmul_f16_f32_") \o sz
    ELSE IF ~bit16_x /\ bit16_y
    THEN NoPipeline
    ELSE (IF aligned THEN "matmul_f32_aligned_" ELSE "matmul_f32_") \o sz

\* ------------------------------------------------------------------------
\* Queues
\* ------------------------------------------------------------------------
QueueNames == {"compq", "tr0q", "tr1q"}

\* command buffers and semaphores of a queue are counted
ggml_vk_create_queue(queue_family_index) ==
    [queue_family_index |-> queue_family_index, cmd_buffer_idx |-> 0, cmd_buffers |-> 0,
     semaphore_idx |-> 0, semaphores |-> 0]

ggml_vk_create_cmd_buffer(q) ==
    IF q.cmd_buffers > q.cmd_buffer_idx
    THEN [q EXCEPT !.cmd_buffer_idx = @ + 1]
    ELSE [q EXCEPT !.cmd_buffers = @ + 1, !.cmd_buffer_idx = @ + 1]

\* variant that creates a semaphore without advancing the cursor
ggml_vk_create_semaphore_NoAdvance(q) ==
    IF q.semaphores > q.semaphore_idx
    THEN [q EXCEPT !.semaphore_idx = @ + 1]
    ELSE [q EXCEPT !.semaphores = @ + 1]

ggml_vk_create_semaphore(q) ==
    IF q.semaphores > q.semaphore_idx
    THEN [q EXCEPT !.semaphore_idx = @ + 1]
    ELSE [q EXCEPT !.semaphores = @ + 1, !.semaphore_idx = @ + 1]

\* variant that leaves the semaphore cursor where it is
ggml_vk_queue_cleanup_KeepSemaphores(q) == [q EXCEPT !.cmd_buffer_idx = 0]

ggml_vk_queue_cleanup(q) == [q EXCEPT !.semaphore_idx = 0, !.cmd_buffer_idx = 0]

\* ------------------------------------------------------------------------
\* The dispatcher
\* ------------------------------------------------------------------------
ggml_vk_can_mul_mat(src0, src1, dst) ==
    LET ne10 == src1.ne[1]
        ne0 == dst.ne[1]
        ne1 == dst.ne[2]
    IN /\ (src0.type = GGML_TYPE_F32 \/ src0.type = GGML_TYPE_F16 \/ ggml_is_quantized(src0.type))
       /\ (src1.type = GGML_TYPE_F32 \/ src1.type = GGML_TYPE_F16 \/ ggml_is_quantized(src1.type))
       /\ dst.type = GGML_TYPE_F32
       /\ ((ne0 >= 32 /\ ne1 >= 32 /\ ne10 >= 32) \/ src0.backend = GGML_BACKEND_GPU)

any_on_device(tensor) ==
    \/ tensor.dst.backend = GGML_BACKEND_GPU
    \/ tensor.src0.backend = GGML_BACKEND_GPU
    \/ tensor.src0.backend = GGML_BACKEND_GPU_SPLIT
    \/ tensor.src1.backend = GGML_BACKEND_GPU

\* variant of the dispatcher that does not look at the worker index
ggml_vk_compute_forward_AnyWorker(params, tensor) ==
    LET func == CASE tensor.op = GGML_OP_MUL ->
                        IF ~any_on_device(tensor) THEN "false" ELSE "ggml_vk_mul"
                  [] tensor.op = GGML_OP_MUL_MAT ->
                        IF ~any_on_device(tensor)
                           /\ ~ggml_vk_can_mul_mat(tensor.src0, tensor.src1, tensor.dst)
                        THEN "false" ELSE "ggml_vk_mul_mat"
                  [] OTHER -> "false"
    IN IF func = "false" THEN "false"
       ELSE IF params.type = GGML_TASK_INIT \/ params.type = GGML_TASK_FINALIZE THEN "true"
       ELSE func

\* ggml_vk_compute_forward(params, tensor): "false" and "true" where it returns without
\* running an operator, else the operator func it runs before returning true
ggml_vk_compute_forward(params, tensor) ==
    LET func == CASE tensor.op = GGML_OP_MUL ->
                        IF ~any_on_device(tensor) THEN "false" ELSE "ggml_vk_mul"
                  [] tensor.op = GGML_OP_MUL_MAT ->
                        IF ~any_on_device(tensor)
                           /\ ~ggml_vk_can_mul_mat(tensor.src0, tensor.src1, tensor.dst)
                        THEN "false" ELSE "ggml_vk_mul_mat"
                  [] OTHER -> "false"
    IN IF func = "false" THEN "false"
       ELSE IF params.ith # 0 THEN "true"
       ELSE IF params.type = GGML_TASK_INIT \/ params.type = GGML_TASK_FINALIZE THEN "true"
       ELSE func

\* ggml_vk_mul_mat: the line of the assertion that fails (0 if none) and the operator chosen
ggml_vk_mul_mat(src0, src1, dst) ==
    IF ~ggml_vk_can_mul_mat(src0, src1, dst) THEN [abort |-> 2248, func |-> "none"]
    ELSE IF src0.type = GGML_TYPE_F32 /\ src1.type = GGML_TYPE_F32
    THEN [abort |-> 0, func |-> "ggml_vk_mul_mat_f32"]
    ELSE IF src1.ne[2] = 1 /\ (src0.type = GGML_TYPE_F16 \/ ggml_is_quantized(src0.type))
    THEN [abort |-> 0, func |-> "ggml_vk_mul_mat_vec_q_f16"]
    ELSE [abort |-> 0, func |-> "ggml_vk_mul_mat_q_f16"]

\* ggml_vk_mul: the line of the assertion that fails (0 if none) and the operator run
ggml_vk_mul(src0, src1, dst) ==
    IF ~(src0.type = GGML_TYPE_F32 /\ src1.type = GGML_TYPE_F32 /\ dst.type = GGML_TYPE_F32)
    THEN [abort |-> 2371, func |-> "none"]
    ELSE [abort |-> 0, func |-> "ggml_vk_mul_f32"]

\* ------------------------------------------------------------------------
\* Statements of an operator
\* ------------------------------------------------------------------------
\* An operator is modelled as the list of the statements it executes that change the
\* state of the backend, in source order; Exec below runs such a list.
BufNames == {"d_Qx", "d_Qy", "d_X", "d_Y", "d_D", "dst"}
SeqNames == {"compute_seqs", "transfer_0_seqs", "transfer_1_seqs", "transfer_2_seqs", "seqs"}

NoStmt ==
    [do |-> "none", q |-> "compq", name |-> "d_D", from |-> "d_D", size |-> 0,
     buf |-> ZeroBuffer, ptr |-> 0, own |-> FALSE, struct |-> FALSE,
     pipeline |-> NoPipeline, n |-> 0, v |-> "seqs", ok |-> TRUE, line |-> 0,
     sem |-> "s", wait |-> {}, signal |-> {}, uses |-> {}]

\* ggml_vk_pool_malloc(size, &name, {})
PoolMalloc(name, size) == [NoStmt EXCEPT !.do = "pool_malloc", !.name = name, !.size = size]
\* name = ggml_vk_create_buffer(size, eDeviceLocal)
CreateBuffer(name, size) == [NoStmt EXCEPT !.do = "create_buffer", !.name = name, !.size = size]
\* name = *(vk_buffer *) tensor->data
TensorBuffer(name, buf) == [NoStmt EXCEPT !.do = "tensor_buffer", !.name = name, !.buf = buf]
\* name = from
CopyBuffer(name, from) == [NoStmt EXCEPT !.do = "copy_buffer", !.name = name, !.from = from]
\* GGML_ASSERT(ok) at the given line
GGML_ASSERT(ok, line) == [NoStmt EXCEPT !.do = "assert", !.ok = ok, !.line = line]
AllocateDescriptorSets(pipeline, n) ==
    [NoStmt EXCEPT !.do = "allocate_descriptor_sets", !.pipeline = pipeline, !.n = n]
\* sem = ggml_vk_create_semaphore(q)
CreateSemaphore(sem, q) == [NoStmt EXCEPT !.do = "create_semaphore", !.sem = sem, !.q = q]
BeginSubmission(q) == [NoStmt EXCEPT !.do = "begin_submission", !.q = q]
\* ggml_vk_end_submission(s, wait, signal): wait and signal name semaphores of the operator
EndSubmission(wait, signal) ==
    [NoStmt EXCEPT !.do = "end_submission", !.wait = wait, !.signal = signal]
\* the wait_semaphores and signal_semaphores arguments of a call that makes its own
\* submission
WithSemaphores(o, wait, signal) == [o EXCEPT !.wait = wait, !.signal = signal]
\* ggml_vk_h2d_tensor_2d(&name, offset, src, i3, i2, q, ...): own is TRUE when no
\* submission is passed (s == nullptr); struct is TRUE when src->data points to the
\* vk_buffer handle of a resident tensor and not to the tensor's elements
H2D(name, src, i3, i2, q, own) ==
    [NoStmt EXCEPT !.do = "h2d_tensor_2d", !.name = name, !.ptr = TensorPtr(src, i2, i3),
                   !.q = q, !.own = own, !.struct = (src.buf.buffer # 0), !.uses = {name}]
\* ggml_vk_buffer_write_2d_async_zeropad(&name, 0, ptr, ..., q, {}, {}): own as for H2D
WriteZeropad(name, ptr, q, own) ==
    [NoStmt EXCEPT !.do = "buffer_write_2d_async_zeropad", !.name = name, !.ptr = ptr,
                   !.q = q, !.own = own, !.uses = {name}]
\* ggml_vk_dispatch_pipeline(s, pipeline, buffers, ...): uses names the buffers bound
Dispatch(pipeline, uses) ==
    [NoStmt EXCEPT !.do = "dispatch_pipeline", !.pipeline = pipeline, !.uses = uses]
\* ggml_vk_buffer_read_async(&name, offset, ptr, size, q, ...)
ReadAsync(name, ptr, q, own) ==
    [NoStmt EXCEPT !.do = "buffer_read_async", !.name = name, !.ptr = ptr, !.q = q, !.own = own,
                   !.uses = {name}]
\* v.push_back(...)
PushBack(v) == [NoStmt EXCEPT !.do = "push_back", !.v = v]
\* ggml_vk_submit(q, v, VK_NULL_HANDLE)
Submit(q, v) == [NoStmt EXCEPT !.do = "submit", !.q = q, !.v = v]
WaitIdle(q) == [NoStmt EXCEPT !.do = "waitIdle", !.q = q]
QueueCleanup(q) == [NoStmt EXCEPT !.do = "queue_cleanup", !.q = q]
PipelineCleanup(pipeline) == [NoStmt EXCEPT !.do = "pipeline_cleanup", !.pipeline = pipeline]
PoolFree(name) == [NoStmt EXCEPT !.do = "pool_free", !.name = name]

\* the queue of the device a name of the operators stands for
GetQueue(dev, q) ==
    CASE q = "compq" -> dev.compute_queue
      [] q = "tr0q" -> dev.transfer_queues[1]
      [] q = "tr1q" -> dev.transfer_queues[2]

SetQueue(dev, q, val) ==
    CASE q = "compq" -> [dev EXCEPT !.compute_queue = val]
      [] q = "tr0q" -> [dev EXCEPT !.transfer_queues[1] = val]
      [] q = "tr1q" -> [dev EXCEPT !.transfer_queues[2] = val]

\* The state a statement acts on: live, pool, dev and pls are the globals of the backend,
\* bufs and seqs the locals of the operator; loaned names the locals obtained from
\* pool_malloc and not yet given back; submitted counts the non-empty ggml_vk_submit
\* calls per queue; dispatched records every dispatch; line is the line of the assertion
\* that failed (0 if none), ub the line of the first undefined behaviour (0 if none).
NoSeqs == [v \in SeqNames |-> 0]
NoSubmits == [q \in QueueNames |-> 0]
NoBufs == [b \in BufNames |-> ZeroBuffer]

\* ggml_vk_buffer_write_2d_async(&name, offset, src, ..., q, ..., s) on registry reg
ggml_vk_buffer_write_2d_async(m, name, src, q, own, reg) ==
    LET dst == m.bufs[name] IN
    IF HostVisible \in dst.memory_property_flags THEN [m EXCEPT !.line = 1047]
    ELSE LET m1 == IF own
                   THEN [m EXCEPT !.dev = SetQueue(m.dev, q,
                                              ggml_vk_create_cmd_buffer(GetQueue(m.dev, q)))]
                   ELSE m
         IN IF PinnedIndex(reg, src, 1) # 0 THEN m1
            ELSE IF dst.sb_write = 0
            THEN LET h == FreshHandle(m1.live) IN
                 [m1 EXCEPT !.bufs[name].sb_write = h, !.live = @ \cup {h}]
            ELSE m1

\* ggml_vk_buffer_write_2d_async_zeropad(&name, offset, src, ..., q, ..., s) on registry
\* reg: the buffers and command buffers it creates
ggml_vk_buffer_write_2d_async_zeropad(m, name, src, q, own, reg) ==
    LET dst == m.bufs[name] IN
    IF HostVisible \in dst.memory_property_flags THEN [m EXCEPT !.line = 1159]
    ELSE LET m1 == IF own
                   THEN [m EXCEPT !.dev = SetQueue(m.dev, q,
                                              ggml_vk_create_cmd_buffer(GetQueue(m.dev, q)))]
                   ELSE m
         IN IF PinnedIndex(reg, src, 1) # 0 THEN m1
            ELSE IF dst.sb_write = 0
            THEN LET h == FreshHandle(m1.live) IN
                 [m1 EXCEPT !.bufs[name].sb_write = h, !.live = @ \cup {h}]
            ELSE m1

\* ggml_vk_buffer_read_async(&name, offset, dst, size, q, ..., s) on registry reg
ggml_vk_buffer_read_async(m, dst, q, own, reg) ==
    IF PinnedIndex(reg, dst, 1) = 0 THEN [m EXCEPT !.line = 1292]
    ELSE IF own
    THEN [m EXCEPT !.dev = SetQueue(m.dev, q, ggml_vk_create_cmd_buffer(GetQueue(m.dev, q)))]
    ELSE m

\* ggml_vk_submit(q, v, fence): nothing if the vector is empty
ggml_vk_submit(m, q, v) ==
    IF m.seqs[v] = 0 THEN m
    ELSE [m EXCEPT !.seqs[v] = 0, !.submitted[q] = @ + 1]

\* one statement
Do(m, o, reg) ==
    CASE o.do = "pool_malloc" ->
            LET r == ggml_vk_pool_malloc(m.pool, o.size, {}, FreshHandle(m.live)) IN
            [m EXCEPT !.pool = r.pool, !.live = (@ \ r.destroyed) \cup r.created,
                      !.bufs[o.name] = r.buf, !.loaned = @ \cup {o.name}]
      [] o.do = "create_buffer" ->
            LET h == FreshHandle(m.live) IN
            [m EXCEPT !.bufs[o.name] = ggml_vk_create_buffer(h, o.size, {DeviceLocal}),
                      !.live = @ \cup {h}]
      [] o.do = "tensor_buffer" -> [m EXCEPT !.bufs[o.name] = o.buf]
      [] o.do = "copy_buffer" -> [m EXCEPT !.bufs[o.name] = m.bufs[o.from]]
      [] o.do = "assert" -> IF o.ok THEN m ELSE [m EXCEPT !.line = o.line]
      [] o.do = "allocate_descriptor_sets" ->
            [m EXCEPT !.pls[o.pipeline] =
                ggml_vk_pipeline_allocate_descriptor_sets(@, o.n, m.dev.descriptor_set_mode)]
      [] o.do = "create_semaphore" ->
            [m EXCEPT !.dev = SetQueue(m.dev, o.q, ggml_vk_create_semaphore(GetQueue(m.dev, o.q)))]
      [] o.do = "begin_submission" ->
            [m EXCEPT !.dev = SetQueue(m.dev, o.q, ggml_vk_create_cmd_buffer(GetQueue(m.dev, o.q)))]
      [] o.do = "h2d_tensor_2d" ->
            LET m1 == IF o.struct /\ m.ub = 0 THEN [m EXCEPT !.ub = 1406] ELSE m IN
            ggml_vk_buffer_write_2d_async(m1, o.name, o.ptr, o.q, o.own, reg)
      [] o.do = "buffer_write_2d_async_zeropad" ->
            ggml_vk_buffer_write_2d_async_zeropad(m, o.name, o.ptr, o.q, o.own, reg)
      [] o.do = "dispatch_pipeline" ->
            LET p == m.pls[o.pipeline] IN
            [m EXCEPT !.pls[o.pipeline] = ggml_vk_dispatch_pipeline(p),
                      !.dispatched = Append(@, [pipeline |-> o.pipeline,
                                                index |-> p.descriptor_set_index,
                                                sets |-> p.descriptor_sets]),
                      !.ub = IF @ = 0 /\ p.descriptor_set_index >= p.descriptor_sets
                             THEN 1012 ELSE @]
      [] o.do = "buffer_read_async" -> ggml_vk_buffer_read_async(m, o.ptr, o.q, o.own, reg)
      [] o.do = "end_submission" -> m
      [] o.do = "push_back" -> [m EXCEPT !.seqs[o.v] = @ + 1]
      [] o.do = "submit" -> ggml_vk_submit(m, o.q, o.v)
      [] o.do = "waitIdle" -> m
      [] o.do = "queue_cleanup" ->
            [m EXCEPT !.dev = SetQueue(m.dev, o.q, ggml_vk_queue_cleanup(GetQueue(m.dev, o.q)))]
      [] o.do = "pipeline_cleanup" ->
            [m EXCEPT !.pls[o.pipeline] = ggml_vk_pipeline_cleanup(@)]
      [] o.do = "pool_free" ->
            LET r == ggml_vk_pool_free(m.pool, m.bufs[o.name]) IN
            [m EXCEPT !.pool = r.pool, !.live = @ \ r.destroyed, !.loaned = @ \ {o.name}]

\* the statements of ops in order, up to the first assertion that fails
RECURSIVE Exec(_, _, _)
Exec(m, ops, reg) ==
    IF ops = <<>> \/ m.line # 0 THEN m
    ELSE Exec(Do(m, Head(ops), reg), Tail(ops), reg)

\* ggml_vk_matmul(pipeline, ..., split_k, q, ...)
\* mutant: the matmul waits for no semaphore
ggml_vk_matmul_NoWait(pipeline, split_k, q, wait, signal) ==
    <<BeginSubmission(q), Dispatch(pipeline, {"d_X", "d_Y", "d_D"})>>
    \o (IF split_k = 1 THEN <<>> ELSE <<Dispatch("matmul_split_k_reduce", {"d_D"})>>)
    \o <<EndSubmission({}, signal)>>

ggml_vk_matmul(pipeline, split_k, q, wait, signal) ==
    <<BeginSubmission(q), Dispatch(pipeline, {"d_X", "d_Y", "d_D"})>>
    \o (IF split_k = 1 THEN <<>> ELSE <<Dispatch("matmul_split_k_reduce", {"d_D"})>>)
    \o <<EndSubmission(wait, signal)>>

\* ------------------------------------------------------------------------
\* ggml_vk_mul_mat_f32
\* ------------------------------------------------------------------------
ggml_vk_mul_mat_f32_locals(src0, src1, dst) ==
    LET ne00 == src0.ne[1]
        ne01 == src0.ne[2]
        ne10 == src1.ne[1]
        ne11 == src1.ne[2]
        kpad == ggml_vk_align_size(ne10, ggml_vk_guess_matmul_pipeline_align(ne01, ne11))
    IN [n |-> src0.ne[3] * src0.ne[4],
        split_k |-> ggml_vk_guess_split_k(ne01, ne11, ne10),
        pipeline |-> ggml_vk_guess_matmul_pipeline(FALSE, FALSE, ne01, ne11, ne10 = kpad),
        x_sz |-> ggml_vk_align_size(4 * (ne01 * ne00), minStorageBufferOffsetAlignment),
        y_sz |-> ggml_vk_align_size(4 * (ne11 * ne10), minStorageBufferOffsetAlignment),
        d_sz |-> ggml_vk_align_size(4 * (ne11 * ne01) * ggml_vk_guess_split_k(ne01, ne11, ne10),
                                    minStorageBufferOffsetAlignment),
        load_x |-> src0.backend # GGML_BACKEND_GPU]

ggml_vk_mul_mat_f32_begin(src0, src1, dst) ==
    LET l == ggml_vk_mul_mat_f32_locals(src0, src1, dst) IN
    (IF src0.backend = GGML_BACKEND_GPU
     THEN <<TensorBuffer("d_X", src0.buf)>>
     ELSE <<PoolMalloc("d_X", l.x_sz * l.n)>>)
    \o <<PoolMalloc("d_Y", l.y_sz * l.n),
         PoolMalloc("d_D", l.d_sz * l.n),
         AllocateDescriptorSets(l.pipeline, l.n)>>
    \o (IF l.split_k > 1
        THEN <<AllocateDescriptorSets("matmul_split_k_reduce", l.n)>> ELSE <<>>)

ggml_vk_mul_mat_f32_loop(src0, src1, dst, i03, i02) ==
    LET l == ggml_vk_mul_mat_f32_locals(src0, src1, dst) IN
    <<CreateSemaphore("s_y", "compq")>>
    \o (IF l.load_x
        THEN <<CreateSemaphore("s_x", "compq"),
               WithSemaphores(H2D("d_X", src0, i03, i02, "tr0q", TRUE), {}, {"s_x"}),
               PushBack("transfer_0_seqs")>>
        ELSE <<>>)
    \o <<Submit("tr0q", "transfer_0_seqs"),
         WithSemaphores(H2D("d_Y", src1, i03, i02, "tr1q", TRUE), {}, {"s_y"}),
         PushBack("transfer_1_seqs"),
         CreateSemaphore("s_mm", "compq")>>
    \o ggml_vk_matmul(l.pipeline, l.split_k, "compq",
                      IF l.load_x THEN {"s_y", "s_x"} ELSE {"s_y"}, {"s_mm"})
    \o <<PushBack("compute_seqs"),
         WithSemaphores(ReadAsync("d_D", TensorPtr(dst, i02, i03), "tr0q", TRUE), {"s_mm"}, {}),
         PushBack("transfer_0_seqs"),
         Submit("tr1q", "transfer_1_seqs"),
         Submit("compq", "compute_seqs")>>

\* mutant: the operator waits for the compute queue
ggml_vk_mul_mat_f32_end_WaitCompute(src0, src1, dst) ==
    LET l == ggml_vk_mul_mat_f32_locals(src0, src1, dst) IN
    <<Submit("tr0q", "transfer_0_seqs"),
      WaitIdle("compq"),
      QueueCleanup("tr0q"), QueueCleanup("tr1q"), QueueCleanup("compq"),
      PipelineCleanup(l.pipeline), PipelineCleanup("matmul_split_k_reduce")>>
    \o (IF src0.backend # GGML_BACKEND_GPU THEN <<PoolFree("d_X")>> ELSE <<>>)
    \o <<PoolFree("d_Y"), PoolFree("d_D")>>

ggml_vk_mul_mat_f32_end(src0, src1, dst) ==
    LET l == ggml_vk_mul_mat_f32_locals(src0, src1, dst) IN
    <<Submit("tr0q", "transfer_0_seqs"),
      WaitIdle("tr0q"),
      QueueCleanup("tr0q"), QueueCleanup("tr1q"), QueueCleanup("compq"),
      PipelineCleanup(l.pipeline), PipelineCleanup("matmul_split_k_reduce")>>
    \o (IF src0.backend # GGML_BACKEND_GPU THEN <<PoolFree("d_X")>> ELSE <<>>)
    \o <<PoolFree("d_Y"), PoolFree("d_D")>>

\* ------------------------------------------------------------------------
\* ggml_vk_mul_mat_q_f16
\* ------------------------------------------------------------------------
ggml_vk_mul_mat_q_f16_locals(src0, src1, dst) ==
    LET ne00 == src0.ne[1]
        ne01 == src0.ne[2]
        ne10 == src1.ne[1]
        ne11 == src1.ne[2]
        f16_f32_kernel == src1.type = GGML_TYPE_F32
        qx_needs_dequant == src0.type # GGML_TYPE_F16
        qy_needs_dequant == src1.type # GGML_TYPE_F16 /\ ~f16_f32_kernel
        x_ne == ne01 * ne00
        y_ne == ne11 * ne10
        d_ne == ne11 * ne01
        split_k == ggml_vk_guess_split_k(ne01, ne11, ne10)
        kpad == ggml_vk_align_size(ne10, ggml_vk_guess_matmul_pipeline_align(ne01, ne11))
    IN [n |-> src0.ne[3] * src0.ne[4],
        qx_needs_dequant |-> qx_needs_dequant,
        qy_needs_dequant |-> qy_needs_dequant,
        dq |-> qx_needs_dequant \/ qy_needs_dequant,
        load_x |-> src0.backend # GGML_BACKEND_GPU,
        load_y |-> src1.backend # GGML_BACKEND_GPU,
        split_k |-> split_k,
        pipeline |-> ggml_vk_guess_matmul_pipeline(TRUE, ~f16_f32_kernel, ne01, ne11, ne10 = kpad),
        qx_sz |-> ggml_vk_align_size((ggml_type_size(src0.type) * x_ne) \div ggml_blck_size(src0.type),
                                     minStorageBufferOffsetAlignment),
        qy_sz |-> ggml_vk_align_size((ggml_type_size(src1.type) * y_ne) \div ggml_blck_size(src1.type),
                                     minStorageBufferOffsetAlignment),
        x_sz |-> ggml_vk_align_size(2 * x_ne, minStorageBufferOffsetAlignment),
        y_sz |-> ggml_vk_align_size(IF f16_f32_kernel THEN 4 * y_ne ELSE 2 * y_ne,
                                    minStorageBufferOffsetAlignment),
        d_sz |-> ggml_vk_align_size(4 * d_ne * split_k, minStorageBufferOffsetAlignment),
        to_fp16_vk_0 |-> ggml_vk_get_to_fp16(src0.type),
        to_fp16_vk_1 |-> ggml_vk_get_to_fp16(src1.type)]

ggml_vk_mul_mat_q_f16_begin(src0, src1, dst) ==
    LET l == ggml_vk_mul_mat_q_f16_locals(src0, src1, dst) IN
    (IF l.load_x THEN <<PoolMalloc("d_Qx", l.qx_sz * l.n)>>
                 ELSE <<TensorBuffer("d_Qx", src0.buf)>>)
    \o (IF l.load_y THEN <<PoolMalloc("d_Qy", l.qy_sz * l.n)>>
                    ELSE <<TensorBuffer("d_Qy", src1.buf)>>)
    \o (IF l.qx_needs_dequant THEN <<PoolMalloc("d_X", l.x_sz * l.n)>>
                              ELSE <<CopyBuffer("d_X", "d_Qx"), GGML_ASSERT(l.qx_sz = l.x_sz, 1922)>>)
    \o (IF l.qy_needs_dequant THEN <<PoolMalloc("d_Y", l.y_sz * l.n)>>
                              ELSE <<CopyBuffer("d_Y", "d_Qy"), GGML_ASSERT(l.qy_sz = l.y_sz, 1928)>>)
    \o <<PoolMalloc("d_D", l.d_sz * l.n),
         GGML_ASSERT(~l.qx_needs_dequant \/ l.to_fp16_vk_0 # NoPipeline, 1934),
         GGML_ASSERT(~l.qy_needs_dequant \/ l.to_fp16_vk_1 # NoPipeline, 1935),
         AllocateDescriptorSets(l.pipeline, l.n)>>
    \o (IF l.qx_needs_dequant THEN <<AllocateDescriptorSets(l.to_fp16_vk_0, l.n)>> ELSE <<>>)
    \o (IF l.qy_needs_dequant THEN <<AllocateDescriptorSets(l.to_fp16_vk_1, l.n)>> ELSE <<>>)
    \o (IF l.split_k > 1
        THEN <<AllocateDescriptorSets("matmul_split_k_reduce", l.n)>> ELSE <<>>)

\* flush is (it_idx == 0 || submit_counter >= VK_SUBMIT_BATCH) of this iteration
ggml_vk_mul_mat_q_f16_loop(src0, src1, dst, i03, i02, flush) ==
    LET l == ggml_vk_mul_mat_q_f16_locals(src0, src1, dst)
        q_semaphores == (IF l.load_x /\ l.qx_needs_dequant THEN {"s_x"} ELSE {})
                        \cup (IF l.load_y /\ l.qy_needs_dequant THEN {"s_y"} ELSE {})
        mm_semaphores == (IF l.load_x /\ ~l.qx_needs_dequant THEN {"s_x"} ELSE {})
                         \cup (IF l.load_y /\ ~l.qy_needs_dequant THEN {"s_y"} ELSE {})
                         \cup (IF l.dq THEN {"s_q"} ELSE {})
    IN
    <<CreateSemaphore("s_mm", "compq")>>
    \o (IF l.load_x
        THEN <<CreateSemaphore("s_x", "tr0q"),
               WithSemaphores(H2D("d_Qx", src0, i03, i02, "tr0q", TRUE), {}, {"s_x"}),
               PushBack("transfer_0_seqs")>>
        ELSE <<>>)
    \o (IF flush THEN <<Submit("tr0q", "transfer_0_seqs")>> ELSE <<>>)
    \o (IF l.load_y
        THEN <<CreateSemaphore("s_y", "tr1q"),
               WithSemaphores(H2D("d_Qy", src1, i03, i02, "tr1q", TRUE), {}, {"s_y"}),
               PushBack("transfer_1_seqs")>>
        ELSE <<>>)
    \o (IF flush THEN <<Submit("tr1q", "transfer_1_seqs")>> ELSE <<>>)
    \o (IF l.dq
        THEN <<CreateSemaphore("s_q", "tr0q"), BeginSubmission("compq")>>
             \o (IF l.qx_needs_dequant
                 THEN <<Dispatch(l.to_fp16_vk_0, {"d_Qx", "d_X"})>> ELSE <<>>)
             \o (IF l.qy_needs_dequant
                 THEN <<Dispatch(l.to_fp16_vk_1, {"d_Qy", "d_Y"})>> ELSE <<>>)
             \o <<EndSubmission(q_semaphores, {"s_q"}), PushBack("compute_seqs")>>
        ELSE <<>>)
    \o ggml_vk_matmul(l.pipeline, l.split_k, "compq", mm_semaphores, {"s_mm"})
    \o <<PushBack("compute_seqs")>>
    \o (IF flush THEN <<Submit("compq", "compute_seqs")>> ELSE <<>>)
    \o <<WithSemaphores(ReadAsync("d_D", TensorPtr(dst, i02, i03), "tr0q", TRUE), {"s_mm"}, {}),
         PushBack("transfer_2_seqs")>>
    \o (IF flush THEN <<Submit("tr0q", "transfer_2_seqs")>> ELSE <<>>)

\* mutant: the operator waits for transfer queue 1
ggml_vk_mul_mat_q_f16_end_WaitUploadY(src0, src1, dst) ==
    LET l == ggml_vk_mul_mat_q_f16_locals(src0, src1, dst) IN
    <<Submit("tr0q", "transfer_0_seqs"),
      Submit("tr1q", "transfer_1_seqs"),
      Submit("compq", "compute_seqs"),
      Submit("tr0q", "transfer_2_seqs"),
      WaitIdle("tr1q"),
      QueueCleanup("tr0q"), QueueCleanup("tr1q"), QueueCleanup("compq"),
      PipelineCleanup(l.pipeline)>>
    \o (IF l.qx_needs_dequant THEN <<PipelineCleanup(l.to_fp16_vk_0)>> ELSE <<>>)
    \o (IF l.qy_needs_dequant THEN <<PipelineCleanup(l.to_fp16_vk_1)>> ELSE <<>>)
    \o <<PipelineCleanup("matmul_split_k_reduce")>>
    \o (IF l.qx_needs_dequant THEN <<PoolFree("d_X")>> ELSE <<>>)
    \o (IF l.qy_needs_dequant THEN <<PoolFree("d_Y")>> ELSE <<>>)
    \o <<PoolFree("d_D")>>
    \o (IF l.load_x THEN <<PoolFree("d_Qx")>> ELSE <<>>)
    \o (IF l.load_y THEN <<PoolFree("d_Qy")>> ELSE <<>>)

ggml_vk_mul_mat_q_f16_end(src0, src1, dst) ==
    LET l == ggml_vk_mul_mat_q_f16_locals(src0, src1, dst) IN
    <<Submit("tr0q", "transfer_0_seqs"),
      Submit("tr1q", "transfer_1_seqs"),
      Submit("compq", "compute_seqs"),
      Submit("tr0q", "transfer_2_seqs"),
      WaitIdle("tr0q"),
      QueueCleanup("tr0q"), QueueCleanup("tr1q"), QueueCleanup("compq"),
      PipelineCleanup(l.pipeline)>>
    \o (IF l.qx_needs_dequant THEN <<PipelineCleanup(l.to_fp16_vk_0)>> ELSE <<>>)
    \o (IF l.qy_needs_dequant THEN <<PipelineCleanup(l.to_fp16_vk_1)>> ELSE <<>>)
    \o <<PipelineCleanup("matmul_split_k_reduce")>>
    \o (IF l.qx_needs_dequant THEN <<PoolFree("d_X")>> ELSE <<>>)
    \o (IF l.qy_needs_dequant THEN <<PoolFree("d_Y")>> ELSE <<>>)
    \o <<PoolFree("d_D")>>
    \o (IF l.load_x THEN <<PoolFree("d_Qx")>> ELSE <<>>)
    \o (IF l.load_y THEN <<PoolFree("d_Qy")>> ELSE <<>>)

\* ------------------------------------------------------------------------
\* ggml_vk_mul_mat_vec_q_f16
\* ------------------------------------------------------------------------
ggml_vk_mul_mat_vec_q_f16_locals(src0, src1, dst) ==
    LET ne00 == src0.ne[1]
        ne01 == src0.ne[2]
        ne10 == src1.ne[1]
        ne11 == src1.ne[2]
        f16_f32_kernel == src1.type = GGML_TYPE_F32
        x_ne == ne01 * ne00
        y_ne == ne11 * ne10
        d_ne == ne11 * ne01
    IN [n |-> src0.ne[3] * src0.ne[4],
        ne11 |-> ne11,
        qy_needs_dequant |-> src1.type # GGML_TYPE_F16 /\ ~f16_f32_kernel,
        load_x |-> src0.backend # GGML_BACKEND_GPU,
        load_y |-> src1.backend # GGML_BACKEND_GPU,
        qx_sz |-> ggml_vk_align_size((ggml_type_size(src0.type) * x_ne) \div ggml_blck_size(src0.type),
                                     minStorageBufferOffsetAlignment),
        qy_sz |-> ggml_vk_align_size((ggml_type_size(src1.type) * y_ne) \div ggml_blck_size(src1.type),
                                     minStorageBufferOffsetAlignment),
        y_sz |-> ggml_vk_align_size(IF f16_f32_kernel THEN 4 * y_ne ELSE 2 * y_ne,
                                    minStorageBufferOffsetAlignment),
        d_sz |-> ggml_vk_align_size(4 * d_ne, minStorageBufferOffsetAlignment),
        to_fp16_vk_1 |-> ggml_vk_get_to_fp16(src1.type),
        dmmv |-> ggml_vk_get_dequantize_mul_mat_vec(src0.type, ~f16_f32_kernel)]

ggml_vk_mul_mat_vec_q_f16_begin(src0, src1, dst) ==
    LET l == ggml_vk_mul_mat_vec_q_f16_locals(src0, src1, dst) IN
    <<GGML_ASSERT(l.ne11 = 1, 2090)>>
    \o (IF l.load_x THEN <<PoolMalloc("d_Qx", l.qx_sz * l.n)>>
                    ELSE <<TensorBuffer("d_Qx", src0.buf)>>)
    \o (IF l.load_y THEN <<PoolMalloc("d_Qy", l.qy_sz * l.n)>>
                    ELSE <<TensorBuffer("d_Qy", src1.buf)>>)
    \o (IF l.qy_needs_dequant THEN <<PoolMalloc("d_Y", l.y_sz * l.n)>>
                              ELSE <<CopyBuffer("d_Y", "d_Qy"), GGML_ASSERT(l.qy_sz = l.y_sz, 2131)>>)
    \o <<PoolMalloc("d_D", l.d_sz * l.n),
         GGML_ASSERT(~l.qy_needs_dequant \/ l.to_fp16_vk_1 # NoPipeline, 2137),
         GGML_ASSERT(l.dmmv # NoPipeline, 2138)>>
    \o (IF l.qy_needs_dequant THEN <<AllocateDescriptorSets(l.to_fp16_vk_1, l.n)>> ELSE <<>>)
    \o <<AllocateDescriptorSets(l.dmmv, l.n)>>

ggml_vk_mul_mat_vec_q_f16_loop(src0, src1, dst, i03, i02, flush) ==
    LET l == ggml_vk_mul_mat_vec_q_f16_locals(src0, src1, dst) IN
    <<BeginSubmission("compq")>>
    \o (IF l.load_x THEN <<H2D("d_Qx", src0, i03, i02, "compq", FALSE)>> ELSE <<>>)
    \o (IF l.load_y THEN <<H2D("d_Qy", src1, i03, i02, "compq", FALSE)>> ELSE <<>>)
    \o (IF l.qy_needs_dequant THEN <<Dispatch(l.to_fp16_vk_1, {"d_Qy", "d_Y"})>> ELSE <<>>)
    \o <<Dispatch(l.dmmv, {"d_Qx", "d_Y", "d_D"}),
         ReadAsync("d_D", TensorPtr(dst, i02, i03), "compq", FALSE),
         EndSubmission({}, {}),
         PushBack("seqs")>>
    \o (IF flush THEN <<Submit("compq", "seqs")>> ELSE <<>>)

ggml_vk_mul_mat_vec_q_f16_end(src0, src1, dst) ==
    LET l == ggml_vk_mul_mat_vec_q_f16_locals(src0, src1, dst) IN
    <<Submit("compq", "seqs"),
      WaitIdle("compq"),
      QueueCleanup("compq")>>
    \o (IF l.qy_needs_dequant THEN <<PipelineCleanup(l.to_fp16_vk_1)>> ELSE <<>>)
    \o <<PipelineCleanup(l.dmmv)>>
    \o (IF l.qy_needs_dequant THEN <<PoolFree("d_Y")>> ELSE <<>>)
    \o <<PoolFree("d_D")>>
    \o (IF l.load_x THEN <<PoolFree("d_Qx")>> ELSE <<>>)
    \o (IF l.load_y THEN <<PoolFree("d_Qy")>> ELSE <<>>)

\* ------------------------------------------------------------------------
\* ggml_vk_mul_f32
\* ------------------------------------------------------------------------
ggml_vk_mul_f32_locals(src0, src1, dst) ==
    LET ne0 == src0.ne[1] * src0.ne[2] * src0.ne[3] * src0.ne[4] IN
    [n |-> src0.ne[3] * src0.ne[4],
     multi |-> src0.ne[4] > 1 \/ src0.ne[3] > 1,
     buf_sz |-> ggml_vk_align_size(4 * ne0, minStorageBufferOffsetAlignment)]

ggml_vk_mul_f32_begin(src0, src1, dst) ==
    LET l == ggml_vk_mul_f32_locals(src0, src1, dst) IN
    <<GGML_ASSERT(src1.backend = GGML_BACKEND_GPU, 2265),
      GGML_ASSERT(ggml_type_size(src1.type) = 4, 2279),
      TensorBuffer("d_Y", src1.buf),
      PoolMalloc("d_X", l.buf_sz * l.n),
      PoolMalloc("d_D", l.buf_sz * l.n),
      AllocateDescriptorSets("mul_f32", l.n)>>

ggml_vk_mul_f32_loop(src0, src1, dst, i03, i02) ==
    LET l == ggml_vk_mul_f32_locals(src0, src1, dst) IN
    IF l.multi
    THEN <<CreateSemaphore("s_x", "compq"), CreateSemaphore("s_mm", "compq"),
           WithSemaphores(H2D("d_X", src0, i03, i02, "tr0q", TRUE), {}, {"s_x"}),
           PushBack("transfer_0_seqs"),
           Submit("tr0q", "transfer_0_seqs"),
           BeginSubmission("compq"),
           Dispatch("mul_f32", {"d_X", "d_Y", "d_D"}),
           EndSubmission({"s_x"}, {"s_mm"}),
           PushBack("compute_seqs"),
           WithSemaphores(ReadAsync("d_D", TensorPtr(dst, i02, i03), "tr1q", TRUE), {"s_mm"}, {}),
           PushBack("transfer_1_seqs"),
           Submit("compq", "compute_seqs"),
           Submit("tr1q", "transfer_1_seqs")>>
    ELSE <<BeginSubmission("compq"),
           H2D("d_X", src0, i03, i02, "compq", FALSE),
           Dispatch("mul_f32", {"d_X", "d_Y", "d_D"}),
           ReadAsync("d_D", TensorPtr(dst, i02, i03), "compq", FALSE),
           EndSubmission({}, {}),
           PushBack("compute_seqs"),
           Submit("compq", "compute_seqs")>>

\* mutant: the multi-batch operator waits for transfer queue 0
ggml_vk_mul_f32_end_WaitUpload(src0, src1, dst) ==
    LET l == ggml_vk_mul_f32_locals(src0, src1, dst) IN
    (IF l.multi
     THEN <<WaitIdle("tr0q"), QueueCleanup("tr0q"), QueueCleanup("tr1q"), QueueCleanup("compq")>>
     ELSE <<WaitIdle("compq"), QueueCleanup("compq")>>)
    \o <<PipelineCleanup("mul_f32"), PoolFree("d_X"), PoolFree("d_D")>>

ggml_vk_mul_f32_end(src0, src1, dst) ==
    LET l == ggml_vk_mul_f32_locals(src0, src1, dst) IN
    (IF l.multi
     THEN <<WaitIdle("tr1q"), QueueCleanup("tr0q"), QueueCleanup("tr1q"), QueueCleanup("compq")>>
     ELSE <<WaitIdle("compq"), QueueCleanup("compq")>>)
    \o <<PipelineCleanup("mul_f32"), PoolFree("d_X"), PoolFree("d_D")>>

\* ------------------------------------------------------------------------
\* The statements of the operator func: before, in and after its loop over the batches
\* ------------------------------------------------------------------------
Begin(func, t) ==
    CASE func = "ggml_vk_mul_mat_f32" -> ggml_vk_mul_mat_f32_begin(t.src0, t.src1, t.dst)
      [] func = "ggml_vk_mul_mat_q_f16" -> ggml_vk_mul_mat_q_f16_begin(t.src0, t.src1, t.dst)
      [] func = "ggml_vk_mul_mat_vec_q_f16" -> ggml_vk_mul_mat_vec_q_f16_begin(t.src0, t.src1, t.dst)
      [] func = "ggml_vk_mul_f32" -> ggml_vk_mul_f32_begin(t.src0, t.src1, t.dst)

Loop(func, t, i03, i02, flush) ==
    CASE func = "ggml_vk_mul_mat_f32" -> ggml_vk_mul_mat_f32_loop(t.src0, t.src1, t.dst, i03, i02)
      [] func = "ggml_vk_mul_mat_q_f16" ->
            ggml_vk_mul_mat_q_f16_loop(t.src0, t.src1, t.dst, i03, i02, flush)
      [] func = "ggml_vk_mul_mat_vec_q_f16" ->
            ggml_vk_mul_mat_vec_q_f16_loop(t.src0, t.src1, t.dst, i03, i02, flush)
      [] func = "ggml_vk_mul_f32" -> ggml_vk_mul_f32_loop(t.src0, t.src1, t.dst, i03, i02)

End(func, t) ==
    CASE func = "ggml_vk_mul_mat_f32" -> ggml_vk_mul_mat_f32_end(t.src0, t.src1, t.dst)
      [] func = "ggml_vk_mul_mat_q_f16" -> ggml_vk_mul_mat_q_f16_end(t.src0, t.src1, t.dst)
      [] func = "ggml_vk_mul_mat_vec_q_f16" -> ggml_vk_mul_mat_vec_q_f16_end(t.src0, t.src1, t.dst)
      [] func = "ggml_vk_mul_f32" -> ggml_vk_mul_f32_end(t.src0, t.src1, t.dst)

\* the operators that count iterations in submit_counter
HasSubmitCounter(func) == func \in {"ggml_vk_mul_mat_q_f16", "ggml_vk_mul_mat_vec_q_f16"}

\* ------------------------------------------------------------------------
\* ggml_vk_transform_tensor and ggml_vk_free_data
\* ------------------------------------------------------------------------
\* the statements of ggml_vk_transform_tensor(data, tensor)
ggml_vk_transform_tensor(data, tensor) ==
    LET q_sz == (ggml_type_size(tensor.type) * tensor.ne[1] * tensor.ne[2] * tensor.ne[3]
                 * tensor.ne[4]) \div ggml_blck_size(tensor.type)
    IN <<GGML_ASSERT(tensor.ne[3] = 1 /\ tensor.ne[4] = 1, 2384),
         CreateBuffer("dst", q_sz),
         H2D("dst", [tensor EXCEPT !.data = data], 0, 0, "tr0q", TRUE), PushBack("seqs"),
         Submit("tr0q", "seqs"),
         WaitIdle("tr0q"),
         GGML_ASSERT(tensor.backend = GGML_BACKEND_GPU, 2402)>>

\* handles destroyed by ggml_vk_free_data(tensor)
ggml_vk_free_data(tensor) ==
    IF tensor.backend # GGML_BACKEND_GPU THEN {} ELSE DestroyedHandles(tensor.buf)

\* ------------------------------------------------------------------------
\* Calls
\* ------------------------------------------------------------------------
NoCall == [call |-> "none"]

NoNode == [op |-> GGML_OP_ADD, src0 |-> NoTensor, src1 |-> NoTensor, dst |-> NoTensor]
NoParams == [type |-> GGML_TASK_COMPUTE, ith |-> 0]

\* no ggml_vk_compute_forward call in progress
IdleCall ==
    [pc |-> "idle", count |-> 0, node |-> NoNode, params |-> NoParams, result |-> "none",
     fault |-> "none", line |-> 0, func |-> "none", it |-> 0, submit_counter |-> 0,
     seqs |-> NoSeqs, bufs |-> NoBufs, loaned |-> {}, dispatched |-> <<>>,
     submitted |-> NoSubmits]

\* the state the statements of call c act on
Machine(c) ==
    [live |-> live, pool |-> g_vk_buffer_pool, dev |-> vk_device, pls |-> vk_pipeline,
     bufs |-> c.bufs, loaned |-> c.loaned, seqs |-> c.seqs, submitted |-> c.submitted,
     dispatched |-> <<>>, line |-> 0, ub |-> 0]

Commit(m) ==
    /\ live' = m.live
    /\ g_vk_buffer_pool' = m.pool
    /\ vk_device' = m.dev
    /\ vk_pipeline' = m.pls

\* enough handles are left for k more buffers
HandlesLeft(k) == Cardinality(live) + k <= MaxBufferIds

\* ggml_vk_compute_forward(params, tensor) up to the loop of the operator it runs
ComputeForward(params, tensor) ==
    /\ call.pc = "idle"
    /\ HandlesLeft(5)
    /\ LET r == ggml_vk_compute_forward(params, tensor)
           c0 == [IdleCall EXCEPT !.count = call.count + 1, !.node = tensor, !.params = params]
       IN IF r \in {"true", "false"}
          THEN /\ call' = [c0 EXCEPT !.pc = "returned", !.result = r]
               /\ UNCHANGED <<live, g_vk_buffer_pool, vk_device, vk_pipeline>>
          ELSE LET f == IF r = "ggml_vk_mul"
                        THEN ggml_vk_mul(tensor.src0, tensor.src1, tensor.dst)
                        ELSE ggml_vk_mul_mat(tensor.src0, tensor.src1, tensor.dst)
               IN IF f.abort # 0
                  THEN /\ call' = [c0 EXCEPT !.pc = "aborted", !.fault = "assert",
                                             !.line = f.abort]
                       /\ UNCHANGED <<live, g_vk_buffer_pool, vk_device, vk_pipeline>>
                  ELSE LET m == Exec(Machine(c0), Begin(f.func, tensor), vk_pinned_memory) IN
                       /\ Commit(m)
                       /\ call' = [c0 EXCEPT !.func = f.func, !.bufs = m.bufs,
                                             !.loaned = m.loaned,
                                             !.pc = IF m.line # 0 THEN "aborted" ELSE "loop",
                                             !.fault = IF m.line # 0 THEN "assert" ELSE "none",
                                             !.line = m.line]
    /\ UNCHANGED <<held, hostVars, tensors, histVars, devVars>>

\* mutant: the first iteration is not flushed
Flush_NotFirst(c) == c.submit_counter + 1 >= VK_SUBMIT_BATCH

\* (it_idx == 0 || submit_counter >= VK_SUBMIT_BATCH) in iteration c.it of call c
Flush(c) == c.it = 0 \/ c.submit_counter + 1 >= VK_SUBMIT_BATCH

\* the statements of iteration c.it of the operator of call c
Iteration(c) ==
    LET ne02 == c.node.src0.ne[3] IN
    Loop(c.func, c.node, c.it \div ne02, c.it % ne02, Flush(c))

\* one iteration (i03, i02) of the loop of the operator in progress; an undefined
\* behaviour in it either crashes the process or lets it run on
Batch ==
    /\ call.pc = "loop"
    /\ HandlesLeft(2)
    /\ LET t == call.node
           ne02 == t.src0.ne[3]
           ne03 == t.src0.ne[4]
           counter == call.submit_counter + 1
           flush == Flush(call)
           m == Exec(Machine(call), Iteration(call), vk_pinned_memory)
           c1 == [call EXCEPT !.bufs = m.bufs, !.loaned = m.loaned, !.seqs = m.seqs,
                              !.submitted = m.submitted, !.dispatched = m.dispatched]
       IN /\ Commit(m)
          /\ \E crash \in (IF m.ub # 0 THEN BOOLEAN ELSE {FALSE}) :
                call' = IF crash
                        THEN [c1 EXCEPT !.pc = "aborted", !.fault = "ub", !.line = m.ub]
                        ELSE IF m.line # 0
                        THEN [c1 EXCEPT !.pc = "aborted", !.fault = "assert", !.line = m.line]
                        ELSE [c1 EXCEPT !.it = @ + 1,
                                        !.submit_counter =
                                            IF ~HasSubmitCounter(call.func) THEN 0
                                            ELSE IF flush THEN 0 ELSE counter,
                                        !.pc = IF call.it + 1 = ne02 * ne03
                                               THEN "end" ELSE "loop"]
    /\ UNCHANGED <<held, hostVars, tensors, histVars, memory>>

BatchStep == Batch /\ UNCHANGED <<gpu, threads>>

\* the operator after its loop, and the return of ggml_vk_compute_forward
Finish ==
    /\ call.pc = "end"
    /\ LET m == Exec(Machine(call), End(call.func, call.node), vk_pinned_memory) IN
       /\ Commit(m)
       /\ call' = [call EXCEPT !.pc = "returned", !.result = "true", !.bufs = NoBufs,
                               !.loaned = m.loaned, !.seqs = m.seqs,
                               !.submitted = m.submitted, !.dispatched = <<>>]
    /\ UNCHANGED <<held, hostVars, tensors, histVars, memory>>

FinishStep == Finish /\ UNCHANGED <<gpu, threads>>

\* the caller takes the result and goes on to its next node
ReturnStep ==
    /\ call.pc = "returned"
    /\ call' = [IdleCall EXCEPT !.count = call.count]
    /\ UNCHANGED <<live, poolVars, hostVars, vk_device, vk_pipeline, tensors, histVars, devVars>>

\* the host calls ggml_vk_transform_tensor(data, tensor); the bytes the call moves and
\* the history are added by the step that makes the call
TransformTensor(data, tensor) ==
    /\ call.pc = "idle"
    /\ Len(tensors) < MaxTensors
    /\ GetQueue(vk_device, "tr0q").cmd_buffer_idx < MaxCmdBuffers
    /\ HandlesLeft(2)
    /\ LET m == Exec(Machine(IdleCall), ggml_vk_transform_tensor(data, tensor),
                     vk_pinned_memory)
       IN /\ Commit(m)
          /\ IF m.line # 0
             THEN /\ call' = [call EXCEPT !.pc = "aborted", !.fault = "assert", !.line = m.line]
                  /\ UNCHANGED tensors
             ELSE /\ tensors' = Append(tensors, [tensor EXCEPT !.data = HeapPtr,
                                                               !.buf = m.bufs["dst"]])
                  /\ UNCHANGED call
    /\ UNCHANGED <<held, hostVars, gpu, threads>>

\* the host calls ggml_vk_free_data on the k-th resident tensor and drops the tensor
FreeData(k) ==
    /\ call.pc = "idle"
    /\ k \in 1..Len(tensors)
    /\ live' = live \ ggml_vk_free_data(tensors[k])
    /\ tensors' = RemoveAt(tensors, k)
    /\ UNCHANGED <<poolVars, hostVars, vk_device, vk_pipeline, call, histVars, devVars>>

\* ------------------------------------------------------------------------
\* Direct calls of the pool
\* ------------------------------------------------------------------------
Sizes == 1..MaxSize

\* a caller runs ggml_vk_pool_malloc(size, &buf, {}) and keeps buf
PoolMallocUpTo(size, n) ==
    /\ Len(held) < n
    /\ HandlesLeft(1)
    /\ LET r == ggml_vk_pool_malloc(g_vk_buffer_pool, size, {}, FreshHandle(live)) IN
       /\ g_vk_buffer_pool' = r.pool
       /\ held' = Append(held, r.buf)
       /\ live' = (live \ r.destroyed) \cup r.created
       /\ last' = [call |-> "pool_malloc", size |-> size, pre |-> g_vk_buffer_pool,
                   post |-> r.pool, buf |-> r.buf, destroyed |-> r.destroyed,
                   created |-> r.created, warned |-> FALSE]
    /\ UNCHANGED <<hostVars, opVars, devVars>>

PoolMallocCall(size) == PoolMallocUpTo(size, MaxHeld)

\* a caller returns the k-th buffer it holds with ggml_vk_pool_free
PoolFreeCall(k) ==
    /\ k \in 1..Len(held)
    /\ LET r == ggml_vk_pool_free(g_vk_buffer_pool, held[k]) IN
       /\ g_vk_buffer_pool' = r.pool
       /\ held' = RemoveAt(held, k)
       /\ live' = live \ r.destroyed
       /\ last' = [call |-> "pool_free", size |-> held[k].size, pre |-> g_vk_buffer_pool,
                   post |-> r.pool, buf |-> held[k], destroyed |-> r.destroyed,
                   created |-> {}, warned |-> r.warned]
    /\ UNCHANGED <<hostVars, opVars, devVars>>

\* ------------------------------------------------------------------------
\* Initial state: after ggml_vk_init, nothing allocated yet
\* ------------------------------------------------------------------------
\* the device as ggml_vk_init leaves it; mode is VK_DEVICE_DESCRIPTOR_POOL_MODE_SINGLE if
\* the trial allocation of the first pipeline failed, else still ..._UNKNOWN
ggml_vk_init(mode) ==
    [fp16 |-> TRUE, descriptor_set_mode |-> mode,
     compute_queue |-> ggml_vk_create_queue(0),
     transfer_queues |-> <<ggml_vk_create_queue(1), ggml_vk_create_queue(1)>>]

InitBackend ==
    /\ live = {}
    /\ g_vk_buffer_pool = [i \in PoolIdx |-> ZeroBuffer]
    /\ vk_pinned_memory = <<>>
    /\ held = <<>>
    /\ host_ptrs = {}
    /\ tensors = <<>>
    /\ call = IdleCall
    /\ last = NoCall
    /\ hist = <<>>
    /\ memory = NoMemory

InitCommon == InitBackend /\ gpu = NoGpu /\ threads = NoThreads

InitDevice(mode) ==
    /\ vk_device = ggml_vk_init(mode)
    /\ vk_pipeline = [p \in PipelineNames |-> ggml_vk_create_pipeline(mode)]

\* ------------------------------------------------------------------------
\* Specification of the pool under direct calls
\* ------------------------------------------------------------------------
InitPool ==
    /\ InitCommon
    /\ InitDevice(VK_DEVICE_DESCRIPTOR_POOL_MODE_UNKNOWN)
    /\ no_pinned = FALSE

PoolMallocStep == \E size \in Sizes : PoolMallocCall(size) /\ UNCHANGED hist
PoolFreeStep == \E k \in 1..MaxHeld : PoolFreeCall(k) /\ UNCHANGED hist

NextPool == PoolMallocStep \/ PoolFreeStep

SpecPool == InitPool /\ [][NextPool]_vars

\* number of device buffers created by the recorded calls
Created(h) == IF h = <<>> THEN 0 ELSE h[Len(h)].ncreated

\* the recycling scenario: the first MaxHist pool calls from an empty pool, recorded
RecMallocStep ==
    /\ Len(hist) < MaxHist
    /\ \E size \in Sizes :
        /\ PoolMallocCall(size)
        /\ hist' = Append(hist, [call |-> "pool_malloc", size |-> size,
                                 buf |-> held'[Len(held')].buffer,
                                 ncreated |-> Created(hist) + Cardinality(last'.created)])

RecFreeStep ==
    /\ Len(hist) < MaxHist
    /\ \E k \in 1..MaxHeld :
        /\ PoolFreeCall(k)
        /\ hist' = Append(hist, [call |-> "pool_free", size |-> held[k].size,
                                 buf |-> held[k].buffer, ncreated |-> Created(hist)])

NextRecycle == RecMallocStep \/ RecFreeStep

SpecRecycle == InitPool /\ [][NextRecycle]_vars

\* ------------------------------------------------------------------------
\* Specification of the pinned registry under host calls
\* ------------------------------------------------------------------------
\* the host calls ggml_vk_host_malloc(size); the bytes of the new mapping are added by the
\* step that makes the call
HostMallocCall(size) ==
    /\ Len(vk_pinned_memory) < MaxPinned
    /\ HandlesLeft(1)
    /\ LET h == FreshHandle(live)
           r == ggml_vk_host_malloc(vk_pinned_memory, no_pinned, size, h)
       IN /\ vk_pinned_memory' = r.reg
          /\ live' = live \cup r.created
          /\ host_ptrs' = IF r.ptr # 0
                          THEN host_ptrs \cup {[ptr |-> r.ptr, size |-> size, handle |-> h]}
                          ELSE host_ptrs
          /\ last' = [call |-> "host_malloc", size |-> size, ptr |-> r.ptr,
                      pre |-> vk_pinned_memory, post |-> r.reg, destroyed |-> {},
                      created |-> r.created]
    /\ UNCHANGED <<no_pinned, poolVars, opVars, hist, gpu, threads>>

\* the host calls ggml_vk_host_free(ptr)
HostFreeCall(ptr) ==
    /\ LET r == ggml_vk_host_free(vk_pinned_memory, ptr) IN
       /\ vk_pinned_memory' = r.reg
       /\ live' = live \ r.destroyed
       /\ host_ptrs' = {a \in host_ptrs : ~(a.ptr <= ptr /\ ptr < a.ptr + a.size)}
       /\ last' = [call |-> "host_free", size |-> 0, ptr |-> ptr, pre |-> vk_pinned_memory,
                   post |-> r.reg, destroyed |-> r.destroyed, created |-> {}]
    /\ UNCHANGED <<no_pinned, poolVars, opVars, hist, devVars>>

\* pointers the host may pass to host_free: any address inside or just past a mapping
\* that can exist, or a heap address
FreePtrs == {HeapPtr} \cup {MappedPtr(h) + off : h \in 1..(MaxPinned + 1), off \in 0..MaxSize}

InitHost ==
    /\ InitCommon
    /\ InitDevice(VK_DEVICE_DESCRIPTOR_POOL_MODE_UNKNOWN)
    /\ no_pinned \in BOOLEAN

HostMallocStep == \E size \in Sizes : HostMallocCall(size) /\ UNCHANGED memory
HostFreeStep == \E ptr \in FreePtrs : HostFreeCall(ptr)

NextHost == HostMallocStep \/ HostFreeStep

SpecHost == InitHost /\ [][NextHost]_vars

\* ------------------------------------------------------------------------
\* Graph nodes
\* ------------------------------------------------------------------------
\* shapes of the matrix product explored: src0 is k x m, src1 is k x n, dst is m x n
Shape(m, n, k) == [m |-> m, n |-> n, k |-> k]

HostTensor(type, backend, ne, data) ==
    [type |-> type, backend |-> backend, ne |-> ne, data |-> data, buf |-> ZeroBuffer]

\* the tensors of a context live on the heap or in the pinned arena the host got from
\* ggml_vk_host_malloc: the address of the k-th of them
Addr(mem, k) ==
    IF mem = "heap" THEN HeapPtr
    ELSE vk_pinned_memory[1][1] + k * (vk_pinned_memory[1][2] \div 4)

Resident(ne) == {tensors[i] : i \in {j \in 1..Len(tensors) : tensors[j].ne = ne}}

\* the nodes with the given op, shape d and batch b whose operands are host tensors of
\* the given types and backends at srcmem, or resident tensors of the right shape
NodesOf(op, d, b, srcmem, dstmem, types, src0Backends, dstTypes, dstBackends) ==
    LET s0 == <<d.k, d.m, b[1], b[2]>>
        s1 == IF op = GGML_OP_MUL_MAT THEN <<d.k, d.n, b[1], b[2]>> ELSE s0
        sd == IF op = GGML_OP_MUL_MAT THEN <<d.m, d.n, b[1], b[2]>> ELSE s0
        \* a resident src1 of one batch is broadcast by the element-wise operators
        r1 == IF op = GGML_OP_MUL_MAT THEN Resident(s1)
              ELSE Resident(<<d.k, d.m, 1, 1>>)
    IN {[op |-> op, src0 |-> x, src1 |-> y, dst |-> z] :
            x \in {HostTensor(t, k, s0, Addr(srcmem, 0)) : t \in types, k \in src0Backends}
                  \cup Resident(s0),
            y \in {HostTensor(t, GGML_BACKEND_CPU, s1, Addr(srcmem, 1)) : t \in types} \cup r1,
            z \in {HostTensor(t, k, sd, Addr(dstmem, 2)) : t \in dstTypes, k \in dstBackends}}

\* ------------------------------------------------------------------------
\* Specification of the dispatcher: one ggml_vk_compute_forward call on any node
\* ------------------------------------------------------------------------
AllTypes == {GGML_TYPE_F32, GGML_TYPE_F16, GGML_TYPE_Q4_0, GGML_TYPE_Q8_0, GGML_TYPE_I32}
AllParams == {[type |-> ty, ith |-> i] :
                ty \in {GGML_TASK_INIT, GGML_TASK_COMPUTE, GGML_TASK_FINALIZE}, i \in {0, 1}}
ForwardShapes == {Shape(32, 32, 32), Shape(16, 16, 16)}

DescriptorSetModes ==
    {VK_DEVICE_DESCRIPTOR_POOL_MODE_UNKNOWN, VK_DEVICE_DESCRIPTOR_POOL_MODE_SINGLE}

InitOps ==
    /\ InitCommon
    /\ \E mode \in DescriptorSetModes : InitDevice(mode)
    /\ no_pinned = FALSE

\* the host allocates the pinned arena its tensors live in
HostArenaStep ==
    /\ call.pc = "idle"
    /\ vk_pinned_memory = <<>>
    /\ HostMallocCall(ArenaSize)
    /\ UNCHANGED memory

\* where the host data of a context is
Mem == IF vk_pinned_memory = <<>> THEN "heap" ELSE "pinned"

TransformTensorStepF ==
    /\ call.count = 0
    /\ \E type \in {GGML_TYPE_F32, GGML_TYPE_Q4_0}, d \in ForwardShapes :
        /\ TransformTensor(Addr(Mem, 3),
                           HostTensor(type, GGML_BACKEND_GPU, <<d.k, d.m, 1, 1>>, 0))
        /\ UNCHANGED <<memory, histVars>>

ComputeForwardStepF ==
    /\ call.count = 0
    /\ \E params \in AllParams, d \in ForwardShapes,
          op \in {GGML_OP_ADD, GGML_OP_MUL, GGML_OP_MUL_MAT} :
        \E tensor \in NodesOf(op, d, <<1, 1>>, Mem, Mem, AllTypes,
                              {GGML_BACKEND_CPU, GGML_BACKEND_GPU_SPLIT},
                              {GGML_TYPE_F32, GGML_TYPE_F16},
                              {GGML_BACKEND_CPU, GGML_BACKEND_GPU}) :
            ComputeForward(params, tensor)

NextForward ==
    \/ HostArenaStep
    \/ TransformTensorStepF
    \/ ComputeForwardStepF
    \/ BatchStep
    \/ FinishStep

SpecForward == InitOps /\ [][NextForward]_vars

\* ------------------------------------------------------------------------
\* Specification of the operators: the host sets up its pinned arena and its resident
\* tensors, then computes a graph of up to MaxCalls nodes that the operators run
\* ------------------------------------------------------------------------
OpTypes == {GGML_TYPE_F32, GGML_TYPE_F16, GGML_TYPE_Q4_0}
OpShapes == {Shape(32, 32, 32), Shape(32, 1, 32), Shape(32, 32, 256)}
OpBatches == {<<b, 1>> : b \in 1..MaxBatch}

InitSingle ==
    /\ InitCommon
    /\ InitDevice(VK_DEVICE_DESCRIPTOR_POOL_MODE_SINGLE)
    /\ no_pinned = FALSE

HostArenaStep0 == call.count = 0 /\ HostArenaStep

TransformTensorStep ==
    /\ call.count = 0
    /\ \E type \in OpTypes, d \in OpShapes :
        /\ TransformTensor(Addr(Mem, 3),
                           HostTensor(type, GGML_BACKEND_GPU, <<d.k, d.m, 1, 1>>, 0))
        /\ UNCHANGED <<memory, histVars>>

FreeDataStep == call.count = 0 /\ \E k \in 1..MaxTensors : FreeData(k)

\* the weights (src0) are on the heap, the activations (src1, dst) in the pinned arena
ComputeForwardStep ==
    /\ call.count < MaxCalls
    /\ vk_pinned_memory # <<>>
    /\ \E d \in OpShapes, b \in OpBatches, op \in {GGML_OP_MUL, GGML_OP_MUL_MAT} :
        \E tensor \in NodesOf(op, d, b, "heap", "pinned", OpTypes, {GGML_BACKEND_CPU},
                              {GGML_TYPE_F32}, {GGML_BACKEND_CPU}) :
            ComputeForward(NoParams, tensor)

Next ==
    \/ HostArenaStep0
    \/ TransformTensorStep
    \/ FreeDataStep
    \/ ComputeForwardStep
    \/ BatchStep
    \/ FinishStep
    \/ ReturnStep

Spec == InitSingle /\ [][Next]_vars

\* ------------------------------------------------------------------------
\* Properties of the dispatcher
\* ------------------------------------------------------------------------
\* the ggml_vk_compute_forward call has ended: it returned, or the process aborted in it
Ended == call.pc \in {"returned", "aborted"} /\ call.count > 0

\* the acceptance condition of a MUL_MAT node
Supported(type) == type \in {GGML_TYPE_F32, GGML_TYPE_F16} \/ ggml_is_quantized(type)
AcceptanceCondition(t) ==
    /\ Supported(t.src0.type)
    /\ Supported(t.src1.type)
    /\ t.dst.type = GGML_TYPE_F32
    /\ \/ (t.dst.ne[1] >= 32 /\ t.dst.ne[2] >= 32 /\ t.src1.ne[1] >= 32)
       \/ t.src0.backend = GGML_BACKEND_GPU

\* C1: for a MUL_MAT node, compute_forward returns true (after running the node or
\* short-circuiting) if and only if the acceptance condition holds, returns false in
\* every other case, and never ends in a fatal assertion.
C1_MulMatAcceptedIff ==
    (Ended /\ call.node.op = GGML_OP_MUL_MAT) =>
        /\ call.pc = "returned"
        /\ call.result = (IF AcceptanceCondition(call.node) THEN "true" ELSE "false")

\* nodes the backend cannot execute: MUL with src1 off the device or a non-f32 operand, other ops
Unexecutable(t) ==
    \/ t.op \notin {GGML_OP_MUL, GGML_OP_MUL_MAT}
    \/ /\ t.op = GGML_OP_MUL
       /\ \/ t.src1.backend # GGML_BACKEND_GPU
          \/ t.src0.type # GGML_TYPE_F32
          \/ t.src1.type # GGML_TYPE_F32
          \/ t.dst.type # GGML_TYPE_F32

\* C2: for a node the backend cannot execute (an op other than MUL and MUL_MAT, a MUL
\* whose src1 is not GPU-resident or whose src0/src1/dst is not f32), compute_forward
\* returns false and does not abort, whatever the backends of the operands.
C2_SoftErrorOnly ==
    (Ended /\ Unexecutable(call.node)) =>
        (call.pc = "returned" /\ call.result = "false")

\* the call made by this step is short-circuited: the task phase is not COMPUTE or the
\* worker index is not 0
ShortCircuitCall ==
    /\ call.pc = "idle"
    /\ call'.count = call.count + 1
    /\ (call'.params.type # GGML_TASK_COMPUTE \/ call'.params.ith # 0)

ExecutesNothing ==
    /\ call'.pc = "returned"
    /\ UNCHANGED <<live, g_vk_buffer_pool, vk_device, vk_pipeline, vk_pinned_memory, tensors>>
    /\ call'.loaned = {}
    /\ call'.submitted = NoSubmits

\* nodes the op switch of the dispatcher turns down before it looks at the task
TurnedDown(t) ==
    \/ t.op \notin {GGML_OP_MUL, GGML_OP_MUL_MAT}
    \/ t.op = GGML_OP_MUL /\ ~any_on_device(t)
    \/ t.op = GGML_OP_MUL_MAT /\ ~any_on_device(t) /\ ~AcceptanceCondition(t)

\* C3 (as stated): a call whose task phase is not COMPUTE or whose worker index is not 0
\* returns true and executes nothing, for every node.
C3_ShortCircuitReturnsTrue ==
    [][ShortCircuitCall => (ExecutesNothing /\ call'.result = "true")]_vars

\* C3 (amended): such a call executes nothing; it returns false for the nodes the op
\* switch turns down and true for every other node.
C3_ShortCircuitExecutesNothing ==
    [][ShortCircuitCall =>
        /\ ExecutesNothing
        /\ call'.result = (IF TurnedDown(call'.node) THEN "false" ELSE "true")]_vars

\* a COMPUTE call of worker 1 on a MUL_MAT node with an operand on the device returned true
\* with a resident tensor and the pinned arena in place
C3_Witness ==
    /\ call.pc = "returned"
    /\ call.params.type = GGML_TASK_COMPUTE
    /\ call.params.ith = 1
    /\ call.node.op = GGML_OP_MUL_MAT
    /\ call.node.src0.backend = GGML_BACKEND_GPU
    /\ call.result = "true"
    /\ vk_pinned_memory # <<>>

\* ------------------------------------------------------------------------
\* Properties of the operators
\* ------------------------------------------------------------------------
\* C4: at every pipeline dispatch of an operator the descriptor_set_index of the pipeline
\* is strictly below the number of descriptor sets allocated for that pipeline.
C4_DescriptorIndexInBounds ==
    \A i \in 1..Len(call.dispatched) :
        call.dispatched[i].index < call.dispatched[i].sets

\* ------------------------------------------------------------------------
\* Properties of the buffer pool
\* ------------------------------------------------------------------------
\* slots of pool holding a free buffer that fits a request of the given size
FreeFitting(pool, size) == {i \in PoolIdx : pool[i].size > 0 /\ pool[i].size >= size}
\* slots of pool holding a free buffer
Occupied(pool) == {i \in PoolIdx : pool[i].size > 0}
EmptySlots(pool) == {i \in PoolIdx : pool[i].size = 0}
IsMiss == last.call = "pool_malloc" /\ FreeFitting(last.pre, last.size) = {}
IsHit == last.call = "pool_malloc" /\ FreeFitting(last.pre, last.size) # {}

\* C5: pool_malloc with a fitting free buffer returns the smallest fitting free buffer,
\* empties its slot, destroys and creates nothing; the buffer handed out always has
\* size >= the requested size.
C5_PoolMallocBestFit ==
    last.call = "pool_malloc" =>
        /\ last.buf.size >= last.size
        /\ IsHit =>
            /\ \E i \in FreeFitting(last.pre, last.size) :
                /\ last.buf = last.pre[i]
                /\ \A j \in FreeFitting(last.pre, last.size) : last.pre[i].size <= last.pre[j].size
                /\ last.post[i].size = 0
                /\ \A j \in PoolIdx \ {i} : last.post[j] = last.pre[j]
            /\ last.destroyed = {}
            /\ last.created = {}
            /\ g_vk_buffer_pool = last.post

\* a hit where best fit and first fit differ
C5_Witness ==
    /\ IsHit
    /\ \E i, j \in FreeFitting(last.pre, last.size) :
        i < j /\ last.pre[j].size < last.pre[i].size /\ last.buf = last.pre[j]

\* the first largest free buffer of pool
LargestFree(pool) ==
    CHOOSE w \in Occupied(pool) :
        \A j \in Occupied(pool) : pool[w].size > pool[j].size \/ (pool[w].size = pool[j].size /\ w <= j)

\* C6 (as stated): on a miss a pooled buffer is destroyed only if the pool is full, and
\* then it is the largest free buffer; with an empty slot left a miss destroys nothing.
C6_DestroyOnlyWhenFull ==
    IsMiss =>
        /\ last.destroyed # {} =>
            /\ EmptySlots(last.pre) = {}
            /\ last.destroyed = DestroyedHandles(last.pre[LargestFree(last.pre)])
        /\ EmptySlots(last.pre) # {} => (last.destroyed = {} /\ last.created # {})

\* C6 (amended): on a miss the largest free buffer is destroyed whenever the pool holds
\* any free buffer, full or not; with no free buffer nothing is destroyed; a fresh buffer
\* is created in either case.
C6_DestroyLargestOnMiss ==
    IsMiss =>
        /\ Cardinality(last.created) = 1
        /\ last.buf.buffer \in last.created
        /\ Occupied(last.pre) = {} => (last.destroyed = {} /\ last.post = last.pre)
        /\ Occupied(last.pre) # {} =>
            LET w == LargestFree(last.pre) IN
            /\ last.destroyed = DestroyedHandles(last.pre[w])
            /\ last.post[w].size = 0
            /\ \A j \in PoolIdx \ {w} : last.post[j] = last.pre[j]

\* a miss that destroys a free buffer although the pool has an empty slot and holds
\* two free buffers of different sizes
C6_Witness ==
    /\ IsMiss
    /\ last.destroyed # {}
    /\ EmptySlots(last.pre) # {}

\* the scenario pool_malloc(a), pool_free, pool_malloc(b), pool_malloc(a) with a > b
RecycleScenario ==
    /\ Len(hist) = 4
    /\ hist[1].call = "pool_malloc"
    /\ hist[2].call = "pool_free" /\ hist[2].buf = hist[1].buf
    /\ hist[3].call = "pool_malloc" /\ hist[3].size < hist[1].size
    /\ hist[4].call = "pool_malloc" /\ hist[4].size = hist[1].size

\* C7 (as stated): the scenario creates exactly two device buffers and the second
\* pool_malloc(a) is served by the buffer freed in step two.
C7_SecondRequestReusesFreed ==
    RecycleScenario => (hist[4].ncreated = 2 /\ hist[4].buf = hist[2].buf)

\* C7 (amended): the scenario creates exactly two device buffers; pool_malloc(b) is served
\* by the buffer freed in step two and the second pool_malloc(a) by a fresh buffer.
C7_RecycleTwoCreations ==
    RecycleScenario =>
        /\ hist[4].ncreated = 2
        /\ hist[3].buf = hist[2].buf
        /\ hist[3].ncreated = 1
        /\ hist[4].buf # hist[2].buf

C7_Witness == RecycleScenario

\* slots of pool whose size is sz and whose owner is the ignored sentinel
SameSizeIgnored(pool, sz) ==
    {i \in PoolIdx : pool[i].size = sz /\ pool[i].qf_owner = VK_QUEUE_FAMILY_IGNORED}

\* the lowest slot that is empty in pool
MinEmpty(pool) == CHOOSE i \in EmptySlots(pool) : \A j \in EmptySlots(pool) : i <= j

\* C8 (as stated): after pool_free(b), b is in the first slot that was empty, with
\* qf_owner ignored, exactly one slot has size b.size and owner ignored, other slots unchanged.
C8_ExactlyOneSlot ==
    last.call = "pool_free" =>
        /\ EmptySlots(last.pre) # {}
        /\ last.post[MinEmpty(last.pre)] = [last.buf EXCEPT !.qf_owner = VK_QUEUE_FAMILY_IGNORED]
        /\ Cardinality(SameSizeIgnored(last.post, last.buf.size)) = 1
        /\ \A j \in PoolIdx \ {MinEmpty(last.pre)} : last.post[j] = last.pre[j]

\* C8 (amended): after pool_free(b) with an empty slot in the pool, b is in the first slot
\* that was empty, with qf_owner ignored, all other slots are unchanged, and the slots with
\* size b.size and owner ignored are one more than before (at least one); with no empty
\* slot the pool is unchanged.
C8_PoolFreeFirstEmpty ==
    last.call = "pool_free" =>
        /\ EmptySlots(last.pre) # {} =>
            /\ last.post[MinEmpty(last.pre)] = [last.buf EXCEPT !.qf_owner = VK_QUEUE_FAMILY_IGNORED]
            /\ \A j \in PoolIdx \ {MinEmpty(last.pre)} : last.post[j] = last.pre[j]
            /\ Cardinality(SameSizeIgnored(last.post, last.buf.size))
                 = Cardinality(SameSizeIgnored(last.pre, last.buf.size)) + 1
            /\ last.destroyed = {}
        /\ EmptySlots(last.pre) = {} => last.post = last.pre
        /\ g_vk_buffer_pool = last.post

\* a pool_free into a pool whose first empty slot is not slot 0 and is not the last
\* empty one, next to a free buffer of the same size
C8_Witness ==
    /\ last.call = "pool_free"
    /\ EmptySlots(last.pre) # {}
    /\ MinEmpty(last.pre) > 0
    /\ Cardinality(SameSizeIgnored(last.post, last.buf.size)) = 2

\* ------------------------------------------------------------------------
\* Properties of the pinned registry
\* ------------------------------------------------------------------------
RegistryEntries(reg) == {<<reg[i][1], reg[i][2], reg[i][3].buffer>> : i \in 1..Len(reg)}
\* entries of reg whose range holds ptr
Holding(reg, ptr) == {i \in 1..Len(reg) : reg[i][1] <= ptr /\ ptr < reg[i][1] + reg[i][2]}

\* C10: the registry holds exactly one entry per successful host_malloc not yet freed,
\* every registered buffer is live, host_free of a pointer inside a registered range
\* removes exactly that entry and destroys exactly its buffer, and host_free of any
\* other pointer changes nothing.
C10_RegistryExact ==
    /\ RegistryEntries(vk_pinned_memory) = {<<a.ptr, a.size, a.handle>> : a \in host_ptrs}
    /\ Len(vk_pinned_memory) = Cardinality(host_ptrs)
    /\ \A i \in 1..Len(vk_pinned_memory) :
        /\ vk_pinned_memory[i][3].buffer \in live
        /\ vk_pinned_memory[i][3].ptr = vk_pinned_memory[i][1]
        /\ vk_pinned_memory[i][3].size = vk_pinned_memory[i][2]
    /\ last.call = "host_free" =>
        /\ Holding(last.pre, last.ptr) = {} => (last.post = last.pre /\ last.destroyed = {})
        /\ Holding(last.pre, last.ptr) # {} =>
            \E i \in Holding(last.pre, last.ptr) :
                /\ Holding(last.pre, last.ptr) = {i}
                /\ last.post = RemoveAt(last.pre, i)
                /\ last.destroyed = {last.pre[i][3].buffer}
                /\ vk_pinned_memory = last.post
    /\ last.call = "host_malloc" =>
        IF no_pinned THEN last.ptr = 0 /\ last.post = last.pre
        ELSE last.ptr # 0 /\ last.post = Append(last.pre, <<last.ptr, last.size, last.post[Len(last.post)][3]>>)

\* a host_free of an interior pointer that removed the first of two entries
C10_Witness ==
    /\ last.call = "host_free"
    /\ Len(last.pre) = 2
    /\ Holding(last.pre, last.ptr) = {1}
    /\ last.ptr > last.pre[1][1]
    /\ Len(vk_pinned_memory) = 1

\* handles of the buffers on loan from the pool: held by a direct caller or by the
\* operator in progress
LoanedHandles ==
    {held[i].buffer : i \in 1..Len(held)} \cup {call.bufs[nm].buffer : nm \in call.loaned}
\* handles of the buffers owned by resident tensors
TensorHandles == {tensors[i].buf.buffer : i \in 1..Len(tensors)}

\* C9: every occupied pool slot has size > 0 and holds a live buffer, no buffer is in two
\* occupied slots, and no buffer on loan or owned by a resident tensor is in an occupied slot.
C9_PoolSlotsExclusive ==
    /\ \A i \in Occupied(g_vk_buffer_pool) :
        /\ g_vk_buffer_pool[i].size > 0
        /\ g_vk_buffer_pool[i].buffer \in live
        /\ g_vk_buffer_pool[i].buffer \notin LoanedHandles \cup TensorHandles
    /\ \A i, j \in Occupied(g_vk_buffer_pool) :
        i # j => g_vk_buffer_pool[i].buffer # g_vk_buffer_pool[j].buffer

\* an operator in its loop holds a buffer it took out of a pool slot, next to an occupied
\* slot and a resident tensor
C9_Witness ==
    /\ call.pc = "loop"
    /\ tensors # <<>>
    /\ Occupied(g_vk_buffer_pool) # {}
    /\ \E nm \in call.loaned, i \in PoolIdx :
        /\ call.bufs[nm].size > 0
        /\ g_vk_buffer_pool[i] = [call.bufs[nm] EXCEPT !.size = 0]

\* ------------------------------------------------------------------------
\* Specification of the operators with and without pinned host memory: one
\* ggml_vk_compute_forward call on a node whose host data is where ggml_vk_host_malloc
\* put it, in the pinned arena or, when the call returned null, on the heap
\* ------------------------------------------------------------------------
InitStaging ==
    /\ InitCommon
    /\ InitDevice(VK_DEVICE_DESCRIPTOR_POOL_MODE_SINGLE)
    /\ no_pinned \in BOOLEAN

\* the host asks for its arena: with GGML_VK_NO_PINNED set the call returns null
HostArenaStepS == call.count = 0 /\ last = NoCall /\ HostArenaStep

ComputeForwardStepS ==
    /\ call.count = 0
    /\ last # NoCall
    /\ \E d \in OpShapes, b \in OpBatches, op \in {GGML_OP_MUL, GGML_OP_MUL_MAT} :
        \E tensor \in NodesOf(op, d, b, Mem, Mem, OpTypes, {GGML_BACKEND_CPU},
                              {GGML_TYPE_F32}, {GGML_BACKEND_CPU}) :
            ComputeForward(NoParams, tensor)

\* the host makes a 2-D tensor resident, whatever backend the tensor is marked with
TransformTensorStepS ==
    /\ call.count = 0
    /\ last # NoCall
    /\ \E type \in OpTypes, d \in OpShapes,
          backend \in {GGML_BACKEND_CPU, GGML_BACKEND_GPU, GGML_BACKEND_GPU_SPLIT} :
        /\ TransformTensor(Addr(Mem, 3), HostTensor(type, backend, <<d.k, d.m, 1, 1>>, 0))
        /\ UNCHANGED <<memory, histVars>>

NextStaging ==
    \/ HostArenaStepS
    \/ TransformTensorStepS
    \/ ComputeForwardStepS
    \/ BatchStep
    \/ FinishStep

SpecStaging == InitStaging /\ [][NextStaging]_vars

\* nodes the dispatcher accepts and whose operator completes when the host data is pinned:
\* a MUL of f32 tensors with src1 resident, or a MUL_MAT of host operands that passes
\* can_mul_mat and does not dequantize both operands with one pipeline
Runnable(t) ==
    \/ /\ t.op = GGML_OP_MUL
       /\ t.src0.type = GGML_TYPE_F32 /\ t.src1.type = GGML_TYPE_F32
       /\ t.dst.type = GGML_TYPE_F32
       /\ t.src0.backend = GGML_BACKEND_CPU
       /\ t.src1.backend = GGML_BACKEND_GPU
    \/ /\ t.op = GGML_OP_MUL_MAT
       /\ AcceptanceCondition(t)
       /\ t.src0.backend = GGML_BACKEND_CPU /\ t.src1.backend = GGML_BACKEND_CPU
       /\ ~(ggml_is_quantized(t.src0.type) /\ ggml_is_quantized(t.src1.type))

\* C11: with GGML_VK_NO_PINNED set (host_malloc returned null, the registry is empty) the
\* operator of every accepted node runs to completion through staging buffers and
\* compute_forward returns true, without a fatal assertion.
C11_NoPinnedRunsToCompletion ==
    (no_pinned /\ Ended /\ Runnable(call.node)) =>
        (call.pc = "returned" /\ call.result = "true")

\* ------------------------------------------------------------------------
\* Properties of ggml_vk_transform_tensor
\* ------------------------------------------------------------------------
\* this step is a ggml_vk_transform_tensor call: it adds a resident tensor, or the process
\* aborts outside ggml_vk_compute_forward
TransformTensorCalled ==
    /\ call.pc = "idle"
    /\ call'.count = call.count
    /\ (Len(tensors') = Len(tensors) + 1 \/ call'.pc = "aborted")

\* C12: ggml_vk_transform_tensor(data, t) on a 2-D tensor completes, whatever backend t is
\* marked with on entry, and leaves t.data pointing to a heap-allocated handle of a
\* freshly created device-local buffer and t.backend equal to GPU.
C12_TransformTensorCompletes ==
    [][TransformTensorCalled =>
        /\ call'.pc = "idle"
        /\ Len(tensors') = Len(tensors) + 1
        /\ LET t == tensors'[Len(tensors')] IN
            /\ t.backend = GGML_BACKEND_GPU
            /\ t.data = HeapPtr
            /\ t.buf.buffer \notin live
            /\ t.buf.buffer \in live'
            /\ t.buf.memory_property_flags = {DeviceLocal}]_vars

\* ------------------------------------------------------------------------
\* Bytes: host memory, buffer contents, transfer commands
\* ------------------------------------------------------------------------
\* A byte is a number: 0 is the zero byte, Garbage a byte nobody has written, and every
\* other value names the byte of host data it is a copy of.
Garbage == -1

\* the byte the host keeps at heap address a
HeapByte(a) == 1000 + a

\* the byte the host has stored at offset j of a mapping it got from ggml_vk_host_malloc
PinnedByte(j) == j + 1

\* the content of a buffer of the given size right after its creation
FreshBytes(size) == [j \in 1..size |-> Garbage]

\* the content of a pinned mapping once the host has stored its data there
PinnedBytes(size) == [j \in 1..size |-> PinnedByte(j - 1)]

\* the byte at host address a: a byte of a registered mapping or a byte of the heap
HostByte(mem, reg, a) ==
    LET i == PinnedIndex(reg, a, 1) IN
    IF i = 0 THEN HeapByte(a) ELSE mem[reg[i][3].buffer][a - reg[i][1] + 1]

\* the n bytes at host address a
HostBytes(mem, reg, a, n) == [j \in 1..n |-> HostByte(mem, reg, a + j - 1)]

\* memcpy(ptr of buffer h + at, bytes, Len(bytes)); a store past the end of the mapping
\* is dropped
Memcpy(mem, h, at, bytes) ==
    [mem EXCEPT ![h] = [j \in 1..Len(@) |->
                            IF j > at /\ j <= at + Len(bytes) THEN bytes[j - at] ELSE @[j]]]

\* memset(ptr of buffer h + at, 0, n)
Memset(mem, h, at, n) == Memcpy(mem, h, at, [j \in 1..n |-> 0])

\* VkBufferCopy {srcOffset, dstOffset, size}
BufferCopy(srcOffset, dstOffset, size) ==
    [srcOffset |-> srcOffset, dstOffset |-> dstOffset, size |-> size]

\* vkCmdCopyBuffer(cmd, src, dst, regions) and vkCmdFillBuffer(cmd, dst, 0, VK_WHOLE_SIZE, 0)
CmdCopyBuffer(src, dst, regions) ==
    [cmd |-> "copyBuffer", src |-> src, dst |-> dst, regions |-> regions]
CmdFillBuffer(dst) ==
    [cmd |-> "fillBuffer", src |-> 0, dst |-> dst, regions |-> <<>>]

\* the device copies one region: a read past the end of the source yields Garbage
CopyRegion(s, d, r) ==
    [j \in 1..Len(d) |->
        IF j > r.dstOffset /\ j <= r.dstOffset + r.size
        THEN LET k == j - r.dstOffset + r.srcOffset IN
             IF k <= Len(s) THEN s[k] ELSE Garbage
        ELSE d[j]]

RECURSIVE CopyRegions(_, _, _)
CopyRegions(s, d, regions) ==
    IF regions = <<>> THEN d
    ELSE CopyRegions(s, CopyRegion(s, d, Head(regions)), Tail(regions))

\* the device executes one recorded command; a fill of VK_WHOLE_SIZE from offset 0 covers
\* the buffer up to the nearest smaller multiple of 4 bytes
Execute(mem, c) ==
    IF c.cmd = "fillBuffer"
    THEN [mem EXCEPT ![c.dst] = [j \in 1..Len(@) |->
                                    IF j <= Len(@) - (Len(@) % 4) THEN 0 ELSE @[j]]]
    ELSE [mem EXCEPT ![c.dst] = CopyRegions(mem[c.src], @, c.regions)]

\* the device executes the commands of a submission in order
RECURSIVE ExecuteAll(_, _)
ExecuteAll(mem, cmds) ==
    IF cmds = <<>> THEN mem ELSE ExecuteAll(Execute(mem, Head(cmds)), Tail(cmds))

\* the contents after the buffers of the handles in created were created with the given
\* size and the buffers that are no longer alive were destroyed
NewBuffers(mem, created, size, alive) ==
    [h \in (DOMAIN mem \cup created) \cap alive |->
        IF h \in created THEN FreshBytes(size) ELSE mem[h]]

\* memcpy of height rows of width bytes from src (stride spitch) into buffer h (stride
\* dpitch, first row at offset at)
RECURSIVE MemcpyRows(_, _, _, _, _, _, _, _, _)
MemcpyRows(mem, reg, h, at, dpitch, src, spitch, width, height) ==
    IF height = 0 THEN mem
    ELSE LET i == height - 1
             prev == MemcpyRows(mem, reg, h, at, dpitch, src, spitch, width, i)
         IN Memcpy(prev, h, at + i * dpitch, HostBytes(mem, reg, src + i * spitch, width))

\* variant that copies from the start of the pinned mapping whatever src is
ggml_vk_buffer_write_2d_async_bytes_NoBufOffset(mem, reg, dst, offset, src, spitch, width, height) ==
    LET i == PinnedIndex(reg, src, 1) IN
    IF i # 0
    THEN LET buf == reg[i][3]
             buf_offset == 0
             slices == IF width = spitch
                       THEN <<BufferCopy(buf_offset, offset, width * height)>>
                       ELSE [r \in 1..height |->
                                BufferCopy(buf_offset + (r - 1) * spitch,
                                           offset + (r - 1) * width, width)]
         IN [mem |-> mem, cmds |-> <<CmdCopyBuffer(buf.buffer, dst.buffer, slices)>>]
    ELSE [mem |-> IF width = spitch
                  THEN Memcpy(mem, dst.sb_write, 0, HostBytes(mem, reg, src, width * height))
                  ELSE MemcpyRows(mem, reg, dst.sb_write, offset, width, src, spitch,
                                  width, height),
          cmds |-> <<CmdCopyBuffer(dst.sb_write, dst.buffer,
                                   <<BufferCopy(0, offset, width * height)>>)>>]

\* ggml_vk_buffer_write_2d_async(dst, offset, src, spitch, width, height, q, ...) at the
\* level of bytes, dst being the buffer as the call leaves it (staging sibling created):
\* mem is the memory after the stores the host makes while recording, cmds the commands
\* recorded into the submission
ggml_vk_buffer_write_2d_async_bytes(mem, reg, dst, offset, src, spitch, width, height) ==
    LET i == PinnedIndex(reg, src, 1) IN
    IF i # 0
    THEN LET buf == reg[i][3]
             buf_offset == src - reg[i][1]
             slices == IF width = spitch
                       THEN <<BufferCopy(buf_offset, offset, width * height)>>
                       ELSE [r \in 1..height |->
                                BufferCopy(buf_offset + (r - 1) * spitch,
                                           offset + (r - 1) * width, width)]
         IN [mem |-> mem, cmds |-> <<CmdCopyBuffer(buf.buffer, dst.buffer, slices)>>]
    ELSE [mem |-> IF width = spitch
                  THEN Memcpy(mem, dst.sb_write, 0, HostBytes(mem, reg, src, width * height))
                  ELSE MemcpyRows(mem, reg, dst.sb_write, offset, width, src, spitch,
                                  width, height),
          cmds |-> <<CmdCopyBuffer(dst.sb_write, dst.buffer,
                                   <<BufferCopy(0, offset, width * height)>>)>>]

\* ggml_vk_h2d_tensor_2d(dst, offset, src, 0, 0, q, ...) for a contiguous tensor whose
\* elements are at x: one ggml_vk_buffer_write_async of ne1 * nb1 bytes
ggml_vk_h2d_tensor_2d_bytes(mem, reg, dst, offset, src, x) ==
    LET ts == ggml_type_size(src.type)
        bs == ggml_blck_size(src.type)
        row_length == (ts * src.ne[1]) \div bs
        nb1 == row_length
    IN ggml_vk_buffer_write_2d_async_bytes(mem, reg, dst, offset, x, 0, src.ne[2] * nb1, 1)

\* ggml_vk_transform_tensor(data, tensor) at the level of bytes, dst being the buffer the
\* call created and alive the handles alive after it: the write is recorded, submitted
\* and, with waitIdle, executed
ggml_vk_transform_tensor_bytes(mem, reg, dst, data, tensor, alive) ==
    LET new == {dst.buffer} \cup (IF dst.sb_write # 0 THEN {dst.sb_write} ELSE {})
        w == ggml_vk_h2d_tensor_2d_bytes(NewBuffers(mem, new, dst.size, alive), reg, dst, 0,
                                         tensor, data)
    IN ExecuteAll(w.mem, w.cmds)

\* ggml_vk_buffer_read(src, offset, dst, size, q): line is the line of the assertion
\* that fails (0 if none), src the buffer afterwards (staging sibling), q the queue
\* afterwards, created the handle created, mem the memory afterwards, bytes the
\* size bytes at dst afterwards
ggml_vk_buffer_read(mem, reg, lv, src, offset, dst, size, q) ==
    LET same == [line |-> 0, src |-> src, q |-> q, created |-> {}, mem |-> mem,
                 bytes |-> HostBytes(mem, reg, dst, size)]
        i == PinnedIndex(reg, dst, 1)
    IN IF HostVisible \in src.memory_property_flags
       THEN IF HostCoherent \notin src.memory_property_flags
            THEN [same EXCEPT !.line = 1324]
            ELSE LET read == [j \in 1..size |-> mem[src.buffer][offset + j]] IN
                 IF i = 0 THEN [same EXCEPT !.bytes = read]
                 ELSE LET mem1 == Memcpy(mem, reg[i][3].buffer, dst - reg[i][1], read) IN
                      [same EXCEPT !.mem = mem1, !.bytes = HostBytes(mem1, reg, dst, size)]
       ELSE IF i # 0
       THEN LET buf == reg[i][3]
                buf_offset == dst - reg[i][1]
                mem1 == Execute(mem, CmdCopyBuffer(src.buffer, buf.buffer,
                                                   <<BufferCopy(offset, buf_offset, size)>>))
            IN [same EXCEPT !.q = ggml_vk_create_cmd_buffer(q), !.mem = mem1,
                            !.bytes = HostBytes(mem1, reg, dst, size)]
       ELSE LET h == IF src.sb_read = 0 THEN FreshHandle(lv) ELSE src.sb_read
                new == IF src.sb_read = 0 THEN {h} ELSE {}
                mem1 == Execute(NewBuffers(mem, new, src.size, lv \cup new),
                                CmdCopyBuffer(src.buffer, h, <<BufferCopy(offset, 0, size)>>))
            IN [same EXCEPT !.src = [src EXCEPT !.sb_read = h],
                            !.q = ggml_vk_create_cmd_buffer(q), !.created = new, !.mem = mem1,
                            !.bytes = [j \in 1..size |-> mem1[h][j]]]

\* ------------------------------------------------------------------------
\* Specification of the bytes a tensor upload and a read move
\* ------------------------------------------------------------------------
\* sizes of the mappings the host asks ggml_vk_host_malloc for, offsets of its data in them
PinSizes == {MaxBytes \div 4, MaxBytes}
PinOffsets == {0, 2}

\* shapes <<ne0 in blocks, ne1>> of the tensors the host uploads
ByteShapes == (1..MaxRow) \X (1..MaxRows)

\* bytes of a 2-D tensor of the type and shape
ByteSize(type, s) == ggml_type_size(type) * s[1] * s[2]

\* host addresses that hold n bytes of host data: the heap, or a place in a mapping
HostPlaces(n) ==
    {HeapPtr} \cup
    {vk_pinned_memory[p[1]][1] + p[2] :
        p \in {q \in (1..Len(vk_pinned_memory)) \X PinOffsets :
                  q[2] + n <= vk_pinned_memory[q[1]][2]}}

\* the lengths the host reads back from a buffer of n bytes
ReadSizes(n) == {n, n \div 2} \ {0}

InitBytes ==
    /\ InitCommon
    /\ InitDevice(VK_DEVICE_DESCRIPTOR_POOL_MODE_SINGLE)
    /\ no_pinned \in BOOLEAN

\* the host gets a mapping from ggml_vk_host_malloc and stores data in it
HostMallocStepB ==
    /\ tensors = <<>>
    /\ \E size \in PinSizes :
        /\ HostMallocCall(size)
        /\ memory' = [h \in DOMAIN memory \cup (live' \ live) |->
                        IF h \in live' \ live THEN PinnedBytes(size) ELSE memory[h]]

\* the host uploads a 2-D tensor whose elements are at data
TransformTensorStepB ==
    \E type \in OpTypes, s \in ByteShapes :
        \E data \in HostPlaces(ByteSize(type, s)) :
            LET tensor == HostTensor(type, GGML_BACKEND_GPU,
                                     <<s[1] * ggml_blck_size(type), s[2], 1, 1>>, 0)
                m == Exec(Machine(IdleCall), ggml_vk_transform_tensor(data, tensor),
                          vk_pinned_memory)
            IN /\ hist = <<>>
               /\ TransformTensor(data, tensor)
               /\ memory' = ggml_vk_transform_tensor_bytes(memory, vk_pinned_memory,
                                                           m.bufs["dst"], data, tensor, m.live)
               /\ hist' = <<[call |-> "transform_tensor", buffer |-> m.bufs["dst"].buffer,
                             size |-> ByteSize(type, s), pinned |-> (data # HeapPtr),
                             bytes |-> HostBytes(memory, vk_pinned_memory, data,
                                                 ByteSize(type, s))]>>
               /\ last' = NoCall

\* the host reads size bytes at offset 0 of the buffer of the resident tensor into dst
\* with ggml_vk_buffer_read on transfer queue 0
BufferReadStepB ==
    /\ call.pc = "idle"
    /\ tensors # <<>>
    /\ Len(hist) <= MaxReads
    /\ HandlesLeft(1)
    /\ \E size \in ReadSizes(tensors[1].buf.size) :
        \E dst \in HostPlaces(size) :
            LET r == ggml_vk_buffer_read(memory, vk_pinned_memory, live, tensors[1].buf, 0,
                                         dst, size, GetQueue(vk_device, "tr0q"))
            IN /\ r.line = 0
               /\ tensors' = [tensors EXCEPT ![1].buf = r.src]
               /\ vk_device' = SetQueue(vk_device, "tr0q", r.q)
               /\ live' = live \cup r.created
               /\ memory' = r.mem
               /\ hist' = Append(hist, [call |-> "buffer_read",
                                        buffer |-> tensors[1].buf.buffer, size |-> size,
                                        pinned |-> (dst # HeapPtr), bytes |-> r.bytes])
    /\ UNCHANGED <<poolVars, hostVars, vk_pipeline, call, last, gpu, threads>>

NextBytes == HostMallocStepB \/ TransformTensorStepB \/ BufferReadStepB

SpecBytes == InitBytes /\ [][NextBytes]_vars

\* C13: whenever a contiguous 2-D tensor has been uploaded with ggml_vk_transform_tensor
\* from pinned or from non-pinned host data, a synchronous ggml_vk_buffer_read of the same
\* byte length from the tensor's buffer returns exactly the bytes the data had.
C13_ReadReturnsData ==
    \A j \in 2..Len(hist) :
        (hist[1].call = "transform_tensor" /\ hist[j].call = "buffer_read"
            /\ hist[j].buffer = hist[1].buffer /\ hist[j].size = hist[1].size)
        => hist[j].bytes = hist[1].bytes

\* an upload from pinned data has been read back in full twice, once into the heap and
\* once into pinned memory
C13_Witness ==
    /\ Len(hist) = 3
    /\ hist[1].call = "transform_tensor" /\ hist[1].pinned
    /\ hist[2].call = "buffer_read" /\ hist[2].size = hist[1].size /\ ~hist[2].pinned
    /\ hist[3].call = "buffer_read" /\ hist[3].size = hist[1].size /\ hist[3].pinned

\* ------------------------------------------------------------------------
\* Specification of the zero-padded write
\* ------------------------------------------------------------------------
\* memcpy and memset of the rows of the zero-padded staging write
RECURSIVE ZeropadRows(_, _, _, _, _, _, _, _)
ZeropadRows(mem, reg, h, src, spitch, width, padded_width, height) ==
    IF height = 0 THEN mem
    ELSE LET i == height - 1
             prev == ZeropadRows(mem, reg, h, src, spitch, width, padded_width, i)
             row == Memcpy(prev, h, i * padded_width, HostBytes(mem, reg, src + i * spitch, width))
         IN Memset(row, h, i * padded_width + width, padded_width - width)

\* ggml_vk_buffer_write_2d_async_zeropad(dst, offset, src, spitch, width, height, align,
\* q, ...) at the level of bytes, dst being the buffer as the call leaves it: mem is the
\* memory after the stores the host makes while recording, cmds the commands recorded
ggml_vk_buffer_write_2d_async_zeropad_bytes(mem, reg, dst, offset, src, spitch, width, height, align) ==
    LET i == PinnedIndex(reg, src, 1)
        padded_width == ggml_vk_align_size(width, align)
    IN IF i # 0
       THEN LET buf == reg[i][3]
                buf_offset == src - reg[i][1]
                slices == IF width = padded_width /\ width = spitch
                          THEN <<BufferCopy(buf_offset, offset, width * height)>>
                          ELSE [r \in 1..height |->
                                   BufferCopy(buf_offset + (r - 1) * spitch,
                                              offset + (r - 1) * padded_width, width)]
            IN [mem |-> mem,
                cmds |-> (IF padded_width > width THEN <<CmdFillBuffer(dst.buffer)>> ELSE <<>>)
                         \o <<CmdCopyBuffer(buf.buffer, dst.buffer, slices)>>]
       ELSE [mem |-> IF width = padded_width /\ width = spitch
                     THEN Memcpy(mem, dst.sb_write, 0,
                                 HostBytes(mem, reg, src, width * height))
                     ELSE ZeropadRows(mem, reg, dst.sb_write, src, spitch, width,
                                      padded_width, height),
             cmds |-> <<CmdCopyBuffer(dst.sb_write, dst.buffer,
                                      <<BufferCopy(0, offset, padded_width * height)>>)>>]

\* a caller that pads rows on upload, as ggml_vk_test_buffer_write_zeropad does: d_X from
\* the pool, the write at offset 0 on transfer queue 0, submit, waitIdle
WriteZeropadCaller(src, width, height, align) ==
    <<PoolMalloc("d_X", ggml_vk_align_size(width, align) * height),
      WriteZeropad("d_X", src, "tr0q", TRUE), PushBack("seqs"),
      Submit("tr0q", "seqs"),
      WaitIdle("tr0q")>>

\* widths, heights and alignments in bytes of the padded writes; the source stride is the
\* width or one byte more
PadWidths == 1..MaxWidth
PadHeights == 1..MaxRows
PadAligns == {1, 2, 4}

\* the buffer as it lay in the pool if pool_malloc handed out a pooled buffer (ZeroBuffer if
\* it created the buffer); a slot whose buffer was destroyed keeps its handle with size 0
Reused(pool, lv, buf) ==
    IF buf.buffer \in lv /\ \E i \in PoolIdx : pool[i].buffer = buf.buffer /\ pool[i].size > 0
    THEN pool[CHOOSE i \in PoolIdx : pool[i].buffer = buf.buffer /\ pool[i].size > 0]
    ELSE ZeroBuffer

\* the caller above runs: the write has been submitted and has completed
WriteZeropadStep ==
    /\ call.pc = "idle"
    /\ Len(held) < MaxHeld
    /\ HandlesLeft(2)
    /\ GetQueue(vk_device, "tr0q").cmd_buffer_idx < MaxCmdBuffers
    /\ \E width \in PadWidths, height \in PadHeights, align \in PadAligns :
        \E spitch \in {width, width + 1} :
            \E src \in HostPlaces(spitch * (height - 1) + width) :
                LET m == Exec(Machine(IdleCall), WriteZeropadCaller(src, width, height, align),
                              vk_pinned_memory)
                    dst == m.bufs["d_X"]
                    old == Reused(g_vk_buffer_pool, live, dst)
                    new == (IF old.buffer = 0 THEN {dst.buffer} ELSE {})
                           \cup (IF dst.sb_write # old.sb_write THEN {dst.sb_write} ELSE {})
                    w == ggml_vk_buffer_write_2d_async_zeropad_bytes(
                            NewBuffers(memory, new, dst.size, m.live), vk_pinned_memory, dst,
                            0, src, spitch, width, height, align)
                IN /\ m.line = 0
                   /\ Commit(m)
                   /\ held' = Append(held, dst)
                   /\ memory' = ExecuteAll(w.mem, w.cmds)
                   /\ hist' = <<[call |-> "buffer_write_2d_async_zeropad",
                                 buffer |-> dst.buffer, pinned |-> (src # HeapPtr),
                                 width |-> width, height |-> height, align |-> align,
                                 rows |-> [r \in 1..height |->
                                             HostBytes(memory, vk_pinned_memory,
                                                       src + (r - 1) * spitch, width)]]>>
                   /\ last' = NoCall
    /\ UNCHANGED <<hostVars, tensors, call, gpu, threads>>

NextZeropad == HostMallocStepB \/ WriteZeropadStep \/ PoolFreeStep

SpecZeropad == InitBytes /\ [][NextZeropad]_vars

\* the last zero-padded write that completed, and its padded width P
PaddedWrite == hist[1]
PaddedWidth == ggml_vk_align_size(PaddedWrite.width, PaddedWrite.align)

\* row i of the destination holds source row i
RowCopied(i) ==
    \A j \in 1..PaddedWrite.width :
        memory[PaddedWrite.buffer][i * PaddedWidth + j] = PaddedWrite.rows[i + 1][j]

\* the padding of row i of the destination is zero
RowPadded(i) ==
    \A j \in (PaddedWrite.width + 1)..PaddedWidth :
        memory[PaddedWrite.buffer][i * PaddedWidth + j] = 0

\* the buffer last written is still held by the caller
WrittenHeld == hist # <<>> /\ \E k \in 1..Len(held) : held[k].buffer = PaddedWrite.buffer

\* C14: after a ggml_vk_buffer_write_2d_async_zeropad at offset 0 has been submitted and
\* has completed, every row i < H of the destination holds source row i in its first W
\* bytes and zeros in the rest of its P = ceil(W/A)*A bytes, for pinned and for
\* non-pinned sources.
C14_ZeropadRows ==
    WrittenHeld => \A i \in 0..(PaddedWrite.height - 1) : RowCopied(i) /\ RowPadded(i)

\* ------------------------------------------------------------------------
\* Mapped pointers of buffers
\* ------------------------------------------------------------------------
\* the staging siblings of buffer b as the write and read paths create them
StagingSiblings(b) ==
    (IF b.sb_write # 0
     THEN {ggml_vk_create_buffer(b.sb_write, b.size, {HostVisible, HostCoherent})} ELSE {})
    \cup
    (IF b.sb_read # 0
     THEN {ggml_vk_create_buffer(b.sb_read, b.size, {HostVisible, HostCoherent, HostCached})}
     ELSE {})

\* the vk_buffer structs of the buffers that exist: in the pool, held by a caller, local
\* to the running operator, resident tensors, pinned mappings
OwnedBuffers ==
    {b \in {g_vk_buffer_pool[i] : i \in PoolIdx} \cup {held[k] : k \in 1..Len(held)}
           \cup {call.bufs[n] : n \in BufNames} \cup {tensors[k].buf : k \in 1..Len(tensors)}
           \cup {vk_pinned_memory[k][3] : k \in 1..Len(vk_pinned_memory)} :
        b.buffer \in live /\ b.size > 0}

ExistingBuffers == OwnedBuffers \cup UNION {StagingSiblings(b) : b \in OwnedBuffers}

\* C15: every buffer that exists (created directly, taken from or returned to the pool,
\* registered as pinned, or a staging sibling) has a mapped host pointer if and only if
\* its property flags include host-visible.
C15_MappedIffHostVisible ==
    \A b \in ExistingBuffers : (b.ptr # 0) <=> (HostVisible \in b.memory_property_flags)

\* a pinned mapping, a buffer in the pool and a resident tensor with a staging sibling
\* exist together
C15_Witness ==
    /\ vk_pinned_memory # <<>>
    /\ \E i \in PoolIdx : g_vk_buffer_pool[i] \in OwnedBuffers
    /\ \E k \in 1..Len(tensors) : tensors[k].buf \in OwnedBuffers /\ tensors[k].buf.sb_write # 0

\* ------------------------------------------------------------------------
\* The device under an operator: queues, submissions and semaphores
\* ------------------------------------------------------------------------
VK_TRANSFER_QUEUE_COUNT == 2
\* queues in the transfer queue family of the physical device
MaxQueueCount == 3

SemNames == {"s_x", "s_y", "s_q", "s_mm"}
NoSemaphore == <<>>

\* the VkQueue (family, index) and the command pool of the three vk_queue structs as
\* ggml_vk_init fills them, for a device whose compute and transfer families are the
\* same or not and whose transfer family has queueCount queues
QueueLayout(same_family, queueCount) ==
    LET compute_queue_family_index == 0
        transfer_queue_family_index == IF same_family THEN 0 ELSE 1
        transfer_queue_count ==
            IF VK_TRANSFER_QUEUE_COUNT > queueCount
            THEN (IF same_family THEN queueCount - 1 ELSE queueCount)
            ELSE VK_TRANSFER_QUEUE_COUNT
        queue_index_offset == IF same_family THEN 1 ELSE 0
        compute_queue == [queue |-> <<compute_queue_family_index, 0>>, pool |-> "compq"]
        transfer_queues(i, name) ==
            IF transfer_queue_count > 0
            THEN [queue |-> <<transfer_queue_family_index,
                              (queue_index_offset + i) % transfer_queue_count>>,
                  pool |-> name]
            ELSE compute_queue
    IN [compq |-> compute_queue, tr0q |-> transfer_queues(0, "tr0q"),
        tr1q |-> transfer_queues(1, "tr1q")]

QueueLayouts == {QueueLayout(s, n) : s \in BOOLEAN, n \in 1..MaxQueueCount}

\* The device's view: queues is the layout; sems the semaphores the locals of the
\* iteration name; cur the submission being recorded or just returned; seqs the
\* submissions each sequence vector holds; subs every submission created, in order, with
\* its status; signaled the semaphores signaled and not yet waited on; idle the VkQueues
\* waitIdle has returned on since the last submit to them; waiting whether the host is
\* inside waitIdle; cleanups and frees what each queue_cleanup and each pool_free of a
\* scratch buffer found; pending the most iterations ever held unsubmitted at once;
\* taken the semaphores ggml_vk_create_semaphore returned, in order; handed the
\* submissions in the order queue.submit received them.
NoSubmission ==
    [q |-> "compq", buffer |-> 0, it |-> 0, cmds |-> {}, bufs |-> {}, wait |-> {},
     signal |-> {}, status |-> "recording", submits |-> 0]

InitGpu(layout) ==
    [queues |-> layout, sems |-> [s \in SemNames |-> NoSemaphore], cur |-> NoSubmission,
     seqs |-> [v \in SeqNames |-> <<>>], subs |-> <<>>, signaled |-> {}, idle |-> {},
     waiting |-> FALSE, waited |-> "none", cleanups |-> <<>>, frees |-> <<>>, pending |-> 0,
     taken |-> <<>>, handed |-> <<>>]

\* variant whose submission signals nothing
CreateSubmission_NoSignal(g, m, q, it, wait, signal) ==
    [NoSubmission EXCEPT !.q = q, !.buffer = GetQueue(m.dev, q).cmd_buffer_idx, !.it = it,
                         !.wait = {g.sems[s] : s \in wait}]

\* ggml_vk_create_submission(q, wait, signal) and ggml_vk_begin_submission(q): the
\* command buffer is the next one of q
CreateSubmission(g, m, q, it, wait, signal) ==
    [NoSubmission EXCEPT !.q = q, !.buffer = GetQueue(m.dev, q).cmd_buffer_idx, !.it = it,
                         !.wait = {g.sems[s] : s \in wait},
                         !.signal = {g.sems[s] : s \in signal}]

\* a command recorded into submission s: what it does and the buffers it touches
Record(s, m, o) ==
    [s EXCEPT !.cmds = @ \cup {[do |-> o.do, uses |-> o.uses]},
              !.bufs = @ \cup {m.bufs[n].buffer : n \in o.uses}]

\* the iterations that hold a submission not yet submitted
Unsubmitted(subs) ==
    {subs[i].it : i \in {j \in 1..Len(subs) : subs[j].status = "recorded"}}

\* the submissions in flight on the device
InFlight(subs) == {i \in 1..Len(subs) : subs[i].status \in {"submitted", "running"}}

\* ggml_vk_submit(q, v, fence): every submission of v goes to the VkQueue of q and v is
\* cleared; nothing if v is empty
ggml_vk_submit_device(g, q, v) ==
    IF g.seqs[v] = <<>> THEN g
    ELSE LET sent == {g.seqs[v][k] : k \in 1..Len(g.seqs[v])} IN
         [g EXCEPT !.subs = [i \in 1..Len(@) |->
                                IF i \in sent
                                THEN [@[i] EXCEPT !.status = "submitted", !.q = q,
                                                  !.submits = @ + 1]
                                ELSE @[i]],
                   !.seqs[v] = <<>>,
                   !.idle = @ \ {g.queues[q].queue},
                   !.handed = @ \o g.seqs[v]]

\* what ggml_vk_queue_cleanup(q) finds: whether waitIdle returned on the VkQueue of q
\* since the last submit to it, the queue waitIdle was last called on, and the
\* submissions in flight whose command buffer is of the pool q resets, that went to q,
\* or that wait on or signal a semaphore of the ring of q
ggml_vk_queue_cleanup_device(g, q) ==
    [g EXCEPT !.cleanups = Append(@,
        [q |-> q,
         idle |-> g.queues[q].queue \in g.idle,
         waited |-> g.waited,
         busy |-> {i \in InFlight(g.subs) :
                     \/ g.subs[i].q = q
                     \/ g.queues[g.subs[i].q].pool = g.queues[q].pool
                     \/ \E s \in g.subs[i].wait \cup g.subs[i].signal : s[1] = q}])]

\* what ggml_vk_pool_free(name) finds: the submissions in flight that touch the buffer
ggml_vk_pool_free_device(g, m, name) ==
    [g EXCEPT !.frees = Append(@,
        [name |-> name, buffer |-> m.bufs[name].buffer,
         busy |-> {i \in InFlight(g.subs) : m.bufs[name].buffer \in g.subs[i].bufs}])]

\* one statement of iteration it, as the device sees it; m is the state before it
Device(g, m, o, it) ==
    CASE o.do = "create_semaphore" ->
            [g EXCEPT !.sems[o.sem] = <<o.q, GetQueue(m.dev, o.q).semaphore_idx>>,
                      !.taken = Append(@, <<o.q, GetQueue(m.dev, o.q).semaphore_idx>>)]
      [] o.do = "begin_submission" ->
            [g EXCEPT !.cur = CreateSubmission(g, m, o.q, it, {}, {})]
      [] o.do \in {"h2d_tensor_2d", "buffer_write_2d_async_zeropad", "buffer_read_async"} ->
            IF o.own
            THEN [g EXCEPT !.cur = Record(CreateSubmission(g, m, o.q, it, o.wait, o.signal),
                                          m, o)]
            ELSE [g EXCEPT !.cur = Record(@, m, o)]
      [] o.do = "dispatch_pipeline" -> [g EXCEPT !.cur = Record(@, m, o)]
      [] o.do = "end_submission" ->
            [g EXCEPT !.cur.wait = {g.sems[s] : s \in o.wait},
                      !.cur.signal = {g.sems[s] : s \in o.signal}]
      [] o.do = "push_back" ->
            LET subs == Append(g.subs, [g.cur EXCEPT !.status = "recorded"])
                n == Cardinality(Unsubmitted(subs))
            IN [g EXCEPT !.subs = subs, !.seqs[o.v] = Append(@, Len(subs)),
                         !.pending = IF n > @ THEN n ELSE @]
      [] o.do = "submit" -> ggml_vk_submit_device(g, o.q, o.v)
      [] o.do = "waitIdle" ->
            [g EXCEPT !.idle = @ \cup {g.queues[o.q].queue}, !.waited = o.q]
      [] o.do = "queue_cleanup" -> ggml_vk_queue_cleanup_device(g, o.q)
      [] o.do = "pool_free" -> ggml_vk_pool_free_device(g, m, o.name)
      [] OTHER -> g

\* the statements of ops in order as the device sees them, up to the first assertion
\* that fails
RECURSIVE DeviceExec(_, _, _, _, _)
DeviceExec(g, m, ops, reg, it) ==
    IF ops = <<>> \/ m.line # 0 THEN g
    ELSE DeviceExec(Device(g, m, Head(ops), it), Do(m, Head(ops), reg), Tail(ops), reg, it)

\* the statements of ops before its waitIdle, and from it on
RECURSIVE BeforeWait(_)
BeforeWait(ops) ==
    IF ops = <<>> \/ Head(ops).do = "waitIdle" THEN <<>>
    ELSE <<Head(ops)>> \o BeforeWait(Tail(ops))

FromWait(ops) == SubSeq(ops, Len(BeforeWait(ops)) + 1, Len(ops))

\* queue.waitIdle() on the VkQueue of q returns once nothing submitted to that VkQueue
\* is in flight
Idle(g, q) ==
    \A i \in InFlight(g.subs) : g.queues[g.subs[i].q].queue # g.queues[q].queue

\* ------------------------------------------------------------------------
\* Specification of one operator with the device running beside it
\* ------------------------------------------------------------------------
DeviceBatches == {<<1, 1>>, <<MaxBatch, 1>>}
DeviceShapes == {Shape(32, 32, 32), Shape(32, 1, 32)}

InitOperator ==
    /\ InitBackend
    /\ InitDevice(VK_DEVICE_DESCRIPTOR_POOL_MODE_UNKNOWN)
    /\ no_pinned = FALSE
    /\ \E layout \in QueueLayouts : gpu = InitGpu(layout)
    /\ threads = NoThreads

\* a tensor is made resident before the operator runs
TransformTensorStepD ==
    /\ call.count = 0
    /\ vk_pinned_memory # <<>>
    /\ \E type \in OpTypes, d \in DeviceShapes :
        /\ TransformTensor(Addr(Mem, 3),
                           HostTensor(type, GGML_BACKEND_GPU, <<d.k, d.m, 1, 1>>, 0))
        /\ UNCHANGED <<memory, histVars>>

ComputeForwardStepD ==
    /\ call.count = 0
    /\ vk_pinned_memory # <<>>
    /\ \E d \in DeviceShapes, b \in DeviceBatches, op \in {GGML_OP_MUL, GGML_OP_MUL_MAT} :
        \E tensor \in NodesOf(op, d, b, "heap", "pinned", OpTypes, {GGML_BACKEND_CPU},
                              {GGML_TYPE_F32}, {GGML_BACKEND_CPU}) :
            ComputeForward(NoParams, tensor)

\* one iteration of the operator: the host records and submits, the device takes it in
BatchStepD ==
    /\ Batch
    /\ UNCHANGED threads
    /\ gpu' = DeviceExec(gpu, Machine(call), Iteration(call), vk_pinned_memory, call.it)

\* the operator after its loop up to its waitIdle: the last submits
SubmitStepD ==
    /\ call.pc = "end"
    /\ ~gpu.waiting
    /\ UNCHANGED threads
    /\ gpu' = [DeviceExec(gpu, Machine(call), BeforeWait(End(call.func, call.node)),
                          vk_pinned_memory, call.it)
               EXCEPT !.waiting = TRUE]
    /\ UNCHANGED <<live, poolVars, hostVars, vk_device, vk_pipeline, tensors, opVars,
                   histVars, memory>>

\* waitIdle returns and the operator cleans up and returns
FinishStepD ==
    /\ gpu.waiting
    /\ LET ops == End(call.func, call.node)
           m == Exec(Machine(call), BeforeWait(ops), vk_pinned_memory)
       IN /\ Idle(gpu, Head(FromWait(ops)).q)
          /\ UNCHANGED threads
          /\ gpu' = [DeviceExec(gpu, m, FromWait(ops), vk_pinned_memory, call.it)
                     EXCEPT !.waiting = FALSE]
    /\ Finish

\* the device starts a submission whose wait semaphores are all signaled
StartStep ==
    \E i \in 1..Len(gpu.subs) :
        /\ gpu.subs[i].status = "submitted"
        /\ gpu.subs[i].wait \subseteq gpu.signaled
        /\ UNCHANGED threads
        /\ gpu' = [gpu EXCEPT !.subs[i].status = "running",
                              !.signaled = @ \ gpu.subs[i].wait]
        /\ UNCHANGED <<live, poolVars, hostVars, vk_device, vk_pipeline, tensors, opVars,
                       histVars, memory>>

\* the device completes a running submission and signals its semaphores
CompleteStep ==
    \E i \in 1..Len(gpu.subs) :
        /\ gpu.subs[i].status = "running"
        /\ UNCHANGED threads
        /\ gpu' = [gpu EXCEPT !.subs[i].status = "done",
                              !.signaled = @ \cup gpu.subs[i].signal]
        /\ UNCHANGED <<live, poolVars, hostVars, vk_device, vk_pipeline, tensors, opVars,
                       histVars, memory>>

NextOperator ==
    \/ HostArenaStep0
    \/ TransformTensorStepD
    \/ ComputeForwardStepD
    \/ BatchStepD
    \/ SubmitStepD
    \/ FinishStepD
    \/ StartStep
    \/ CompleteStep

SpecOperator == InitOperator /\ [][NextOperator]_vars

\* ------------------------------------------------------------------------
\* Specification of the host side of one operator, up to its waitIdle
\* ------------------------------------------------------------------------
SubmitBatches == {<<1, 1>>, <<MaxBatch, 1>>, <<MaxBatch, MaxBatch>>}

ComputeForwardStepQ ==
    /\ call.count = 0
    /\ vk_pinned_memory # <<>>
    /\ \E d \in DeviceShapes, b \in SubmitBatches :
        \E tensor \in NodesOf(GGML_OP_MUL_MAT, d, b, "heap", "pinned", OpTypes,
                              {GGML_BACKEND_CPU}, {GGML_TYPE_F32}, {GGML_BACKEND_CPU}) :
            ComputeForward(NoParams, tensor)

NextSubmit ==
    \/ HostArenaStep0
    \/ TransformTensorStepD
    \/ ComputeForwardStepQ
    \/ BatchStepD
    \/ SubmitStepD

SpecSubmit == InitOperator /\ [][NextSubmit]_vars

\* ------------------------------------------------------------------------
\* Properties of the queues under an operator
\* ------------------------------------------------------------------------
\* the queue the operator of call c calls waitIdle on
WaitedQueue(c) ==
    CASE c.func \in {"ggml_vk_mul_mat_f32", "ggml_vk_mul_mat_q_f16"} -> "tr0q"
      [] c.func = "ggml_vk_mul_mat_vec_q_f16" -> "compq"
      [] c.func = "ggml_vk_mul_f32" ->
            IF c.node.src0.ne[3] > 1 \/ c.node.src0.ne[4] > 1 THEN "tr1q" ELSE "compq"
      [] OTHER -> "none"

Cleanups == {gpu.cleanups[k] : k \in 1..Len(gpu.cleanups)}

\* C16 as stated: every queue_cleanup(q) comes after a waitIdle on the queue of q that
\* no submit to that queue has followed
C16_CleanupAfterWaitOnSameQueue == \A c \in Cleanups : c.idle

\* C16, amended: every queue_cleanup(q) of an operator comes after its one waitIdle,
\* which is on transfer queue 0 in the two matmuls, on transfer queue 1 in the
\* multi-batch mul and on the compute queue in the mat-vec and the single-batch mul and
\* which no submit follows; the queue cleaned up has been waited on exactly when it is
\* or shares the VkQueue of that queue
C16_CleanupAfterTheOneWait ==
    \A c \in Cleanups :
        /\ c.waited = WaitedQueue(call)
        /\ c.idle <=> (gpu.queues[c.q].queue = gpu.queues[c.waited].queue)

\* an operator has cleaned up its three queues, one of them without a waitIdle on it
C16_Witness ==
    /\ call.pc = "returned"
    /\ {c.q : c \in Cleanups} = QueueNames
    /\ \E c \in Cleanups : ~c.idle
    /\ \E c \in Cleanups : c.idle

\* the submissions of the operator by what they do
Subs == 1..Len(gpu.subs)
Started(i) == gpu.subs[i].status \in {"running", "done"}
Done(i) == gpu.subs[i].status = "done"
Does(i, do, uses) == \E c \in gpu.subs[i].cmds : c.do = do /\ c.uses \in uses
IsUploadX(i) == Does(i, "h2d_tensor_2d", {{"d_Qx"}, {"d_X"}})
IsUploadY(i) == Does(i, "h2d_tensor_2d", {{"d_Qy"}, {"d_Y"}})
IsDequantX(i) == Does(i, "dispatch_pipeline", {{"d_Qx", "d_X"}})
IsDequantY(i) == Does(i, "dispatch_pipeline", {{"d_Qy", "d_Y"}})
IsMatmul(i) == Does(i, "dispatch_pipeline", {{"d_X", "d_Y", "d_D"}})
IsDownload(i) == Does(i, "buffer_read_async", {{"d_D"}})
ThreeQueueMatmul == call.func \in {"ggml_vk_mul_mat_f32", "ggml_vk_mul_mat_q_f16"}

\* C17: in the three-queue matmuls, within one batch, a dequantization that has started
\* finds the upload of its operand completed, a matmul that has started finds both
\* uploads and the dequantization completed, and a download that has started finds the
\* matmul completed, whatever the order in which the device runs the submissions
C17_BatchOrder ==
    ThreeQueueMatmul =>
        \A i \in Subs, j \in Subs :
            (gpu.subs[i].it = gpu.subs[j].it /\ Started(i)) =>
                /\ (IsDequantX(i) /\ IsUploadX(j)) => Done(j)
                /\ (IsDequantY(i) /\ IsUploadY(j)) => Done(j)
                /\ (IsMatmul(i) /\ (IsUploadX(j) \/ IsUploadY(j) \/ IsDequantX(j)
                                    \/ IsDequantY(j))) => Done(j)
                /\ (IsDownload(i) /\ IsMatmul(j)) => Done(j)

\* the quantized matmul with both operands uploaded: the dequantization of the second
\* batch runs while the download of the first is done
C17_Witness ==
    /\ call.func = "ggml_vk_mul_mat_q_f16"
    /\ \E i \in Subs, j \in Subs, k \in Subs, d \in Subs :
        /\ gpu.subs[i].it = 1 /\ IsDequantX(i) /\ gpu.subs[i].status = "running"
        /\ gpu.subs[j].it = 1 /\ IsUploadX(j) /\ Done(j)
        /\ gpu.subs[k].it = 1 /\ IsUploadY(k) /\ ~Started(k)
        /\ gpu.subs[d].it = 0 /\ IsDownload(d) /\ Done(d)

\* C18: when queue_cleanup(q) resets the command pool and the cursors of q, no
\* submission is in flight that went to q, whose command buffer is of the pool reset, or
\* that waits on or signals a semaphore of the ring of q; for the three queues, in every
\* operator and on every queue layout
C18_CleanupFindsQueueDone == \A c \in Cleanups : c.busy = {}

\* an operator of two batches has submitted to its three queues, which are copies of
\* the compute queue, and has cleaned them up with all its submissions completed
C18_Witness ==
    /\ call.pc = "returned"
    /\ call.node.src0.ne[3] > 1
    /\ {c.q : c \in Cleanups} = QueueNames
    /\ {gpu.subs[i].q : i \in Subs} = QueueNames
    /\ \A i \in Subs : Done(i)
    /\ gpu.queues["tr0q"] = gpu.queues["compq"]

\* C19: when pool_free gives a scratch buffer back to the pool, no submission that
\* reads or writes the buffer is in flight on any queue
C19_PoolFreeFindsBufferDone ==
    \A k \in 1..Len(gpu.frees) : gpu.frees[k].busy = {}

\* an operator has freed a scratch buffer that submissions of two batches used, all of
\* them completed
C19_Witness ==
    /\ call.pc = "returned"
    /\ \E k \in 1..Len(gpu.frees) :
        LET users == {i \in Subs : gpu.frees[k].buffer \in gpu.subs[i].bufs} IN
        /\ {gpu.subs[i].it : i \in users} = {0, 1}
        /\ {"compq", "tr0q"} \subseteq {gpu.subs[i].q : i \in users}
        /\ \A i \in users : Done(i)

\* the operator counts its iterations in submit_counter and is in or just after its loop
Batching == HasSubmitCounter(call.func) /\ call.pc \in {"loop", "end"}

\* the last iteration that flushed, of the call.it iterations run so far
LastFlush == VK_SUBMIT_BATCH * ((call.it - 1) \div VK_SUBMIT_BATCH)

\* C20: in the quantized/f16 matmul and the mat-vec path the first iteration and then
\* every third one submit what has accumulated; an iteration submits all the sequence
\* vectors or none; at most VK_SUBMIT_BATCH iterations are ever held unsubmitted; and
\* when the operator calls waitIdle every submission it created has been submitted
\* exactly once
C20_SubmitBatching ==
    Batching =>
        /\ (call.it > 0 /\ ~gpu.waiting) =>
                Unsubmitted(gpu.subs) = {i \in 0..(call.it - 1) : i > LastFlush}
        /\ \A i \in Subs, j \in Subs :
                gpu.subs[i].it = gpu.subs[j].it =>
                    ((gpu.subs[i].status = "recorded") <=> (gpu.subs[j].status = "recorded"))
        /\ gpu.pending <= VK_SUBMIT_BATCH
        /\ gpu.waiting => \A i \in Subs : gpu.subs[i].submits = 1

\* the quantized matmul has run more than VK_SUBMIT_BATCH iterations, has held
\* VK_SUBMIT_BATCH of them unsubmitted, and is in waitIdle
C20_Witness ==
    /\ call.func = "ggml_vk_mul_mat_q_f16"
    /\ call.it > VK_SUBMIT_BATCH
    /\ gpu.pending = VK_SUBMIT_BATCH
    /\ gpu.waiting
    /\ \A v \in SeqNames : gpu.seqs[v] = <<>>
    /\ {gpu.subs[i].it : i \in Subs} = 0..(call.it - 1)

\* ------------------------------------------------------------------------
\* Queue family ownership: ggml_vk_sync_buffers
\* ------------------------------------------------------------------------
\* ggml_vk_subbuffer(buf): the vk_subbuffer holds a copy of the vk_buffer struct
ggml_vk_subbuffer(buf) == [buffer |-> buf, offset |-> 0, size |-> buf.size]

\* ggml_vk_sync_buffers(cmd_buffer, buffers, q, src_mask, dst_mask, force_sync): buffers is
\* the vector of vk_subbuffer the call received; the result is the barriers handed to
\* pipelineBarrier (none: no pipelineBarrier) and the elements of the vector afterwards
RECURSIVE ggml_vk_sync_buffers(_, _, _)
ggml_vk_sync_buffers(buffers, q, force_sync) ==
    IF buffers = <<>> THEN [bmem_barriers |-> <<>>, buffers |-> <<>>]
    ELSE LET buf == Head(buffers)
             rest == ggml_vk_sync_buffers(Tail(buffers), q, force_sync)
             transfer == /\ buf.buffer.qf_owner # VK_QUEUE_FAMILY_IGNORED
                         /\ buf.buffer.qf_owner # q.queue_family_index
             barrier(sfi, dfi) ==
                 [sfi |-> sfi, dfi |-> dfi, buffer |-> buf.buffer.buffer,
                  offset |-> buf.offset, size |-> buf.size]
         IN IF transfer
            THEN [bmem_barriers |-> <<barrier(buf.buffer.qf_owner, q.queue_family_index)>>
                                        \o rest.bmem_barriers,
                  buffers |-> <<[buf EXCEPT !.buffer.qf_owner = q.queue_family_index]>>
                                  \o rest.buffers]
            ELSE IF force_sync
            THEN [bmem_barriers |-> <<barrier(VK_QUEUE_FAMILY_IGNORED,
                                              VK_QUEUE_FAMILY_IGNORED)>>
                                        \o rest.bmem_barriers,
                  buffers |-> <<buf>> \o rest.buffers]
            ELSE [bmem_barriers |-> rest.bmem_barriers, buffers |-> <<buf>> \o rest.buffers]

\* a caller that holds buffers of the pool records a command buffer for queue q and
\* synchronises the k-th buffer it holds, as the write, read and matmul helpers do:
\* ggml_vk_sync_buffers(cmd, { ggml_vk_subbuffer(*dst) }, q, ..., force_sync). The
\* vector is a temporary of the call: held is what the caller has afterwards.
SyncBuffersCall(k, q, force_sync) ==
    /\ k \in 1..Len(held)
    /\ LET r == ggml_vk_sync_buffers(<<ggml_vk_subbuffer(held[k])>>,
                                     GetQueue(vk_device, q), force_sync) IN
       last' = [call |-> "sync_buffers", k |-> k, q |-> q, force_sync |-> force_sync,
                pre |-> held[k], bmem_barriers |-> r.bmem_barriers,
                buffers |-> r.buffers]
    /\ UNCHANGED <<live, poolVars, hostVars, opVars, hist, devVars>>

SyncBuffersStep ==
    \E k \in 1..MaxHeld, q \in QueueNames, force_sync \in BOOLEAN :
        SyncBuffersCall(k, q, force_sync)

NextSync == PoolMallocStep \/ PoolFreeStep \/ SyncBuffersStep

SpecSync == InitPool /\ [][NextSync]_vars

\* the last step synchronised a buffer the caller holds for a queue of another family
\* than the one the buffer records
SyncedForOtherFamily ==
    /\ last.call = "sync_buffers"
    /\ last.pre.qf_owner # GetQueue(vk_device, last.q).queue_family_index

\* C21: whenever a buffer is synchronised for a queue whose family differs from the
\* buffer's recorded qf_owner, an ownership-transfer barrier from the old family to the
\* new one is recorded and the caller's buffer afterwards records the new family as
\* qf_owner.
C21_OwnershipFollowsQueue ==
    SyncedForOtherFamily =>
        LET family == GetQueue(vk_device, last.q).queue_family_index IN
        /\ \E i \in 1..Len(last.bmem_barriers) :
              /\ last.bmem_barriers[i].sfi = last.pre.qf_owner
              /\ last.bmem_barriers[i].dfi = family
              /\ last.bmem_barriers[i].buffer = last.pre.buffer
        /\ held[last.k].qf_owner = family

\* what the code does: every buffer a caller holds records VK_QUEUE_FAMILY_IGNORED, before
\* and after every synchronisation, and no barrier ever names a queue family
C21_OwnerStaysIgnored ==
    /\ \A k \in 1..Len(held) : held[k].qf_owner = VK_QUEUE_FAMILY_IGNORED
    /\ last.call = "sync_buffers" =>
          \A i \in 1..Len(last.bmem_barriers) :
              /\ last.bmem_barriers[i].sfi = VK_QUEUE_FAMILY_IGNORED
              /\ last.bmem_barriers[i].dfi = VK_QUEUE_FAMILY_IGNORED

\* a buffer taken from the pool was synchronised for a transfer queue without force_sync
C21_Witness ==
    /\ SyncedForOtherFamily
    /\ last.q = "tr0q"
    /\ ~last.force_sync
    /\ last.bmem_barriers = <<>>

\* ------------------------------------------------------------------------
\* Threads that submit to the queues: ggml_vk_submit and ggml_vk_buffer_read
\* ------------------------------------------------------------------------
MaxThreads == 2
ThreadIds == 1..MaxThreads

\* a vk_submission: its command buffer and its semaphore lists
Submission(buffer, wait, signal) ==
    [buffer |-> buffer, wait_semaphores |-> wait, signal_semaphores |-> signal]

\* the std::vector<vk_sequence> values a caller passes to ggml_vk_submit
SubmitInputs ==
    LET s1 == Submission(1, <<>>, <<"a">>)
        s2 == Submission(2, <<"a">>, <<"b", "c">>)
        s3 == Submission(3, <<"b", "c">>, <<>>)
    IN {<<>>, << <<s1>> >>, << <<s1, s2>> >>, << <<s2>>, <<s1>> >>,
        << <<s1, s2>>, <<s3>> >>, << <<>>, <<s3>> >>}

\* the vectors the threads that run side by side pass
ThreadInputs == {<<>>, << <<Submission(1, <<>>, <<>>)>> >>}

\* q.stage_flags as ggml_vk_init sets them: a transfer slot that is a copy of the
\* compute queue has the flags of the compute queue
stage_flags(layout, q) ==
    IF layout[q].pool = "compq" THEN {"eComputeShader", "eTransfer"} ELSE {"eTransfer"}

\* the vk::SubmitInfo of one submission
SubmitInfo_NoSignal(flags, submission) ==
    [waitSemaphores |-> submission.wait_semaphores,
     waitDstStageMask |-> [i \in 1..Len(submission.wait_semaphores) |-> flags],
     commandBuffers |-> <<submission.buffer>>,
     signalSemaphores |-> <<>>]
SubmitInfo(flags, submission) ==
    [waitSemaphores |-> submission.wait_semaphores,
     waitDstStageMask |-> [i \in 1..Len(submission.wait_semaphores) |-> flags],
     commandBuffers |-> <<submission.buffer>>,
     signalSemaphores |-> submission.signal_semaphores]

\* the inner loop of ggml_vk_submit: the submit infos of one sequence
RECURSIVE SequenceInfos(_, _)
SequenceInfos(flags, sequence) ==
    IF sequence = <<>> THEN <<>>
    ELSE <<SubmitInfo(flags, Head(sequence))>> \o SequenceInfos(flags, Tail(sequence))

\* the outer loop of ggml_vk_submit: submit_infos when the loops are done
RECURSIVE submit_infos(_, _)
submit_infos(flags, sequences) ==
    IF sequences = <<>> THEN <<>>
    ELSE SequenceInfos(flags, Head(sequences)) \o submit_infos(flags, Tail(sequences))

\* A thread: func the function it is in and pc its position there; q the vk_queue struct
\* it was given; sequences the caller's vector and passed its value at the call; fence
\* the state of the fence it passed ("null": none); calls the q.queue.submit calls the
\* function has made so far.
IdleThread ==
    [func |-> "none", pc |-> "idle", q |-> "compq", sequences |-> <<>>, fence |-> "null",
     calls |-> <<>>, passed |-> <<>>]

\* one std::mutex per vk_queue struct (the copy assignment of vk_queue leaves the mutex
\* of the target as it is): 0 when unlocked, else the thread that holds it
InitThreads == [th |-> [t \in ThreadIds |-> IdleThread], mutex |-> [q \in QueueNames |-> 0]]

InitQueues ==
    /\ InitBackend
    /\ InitDevice(VK_DEVICE_DESCRIPTOR_POOL_MODE_UNKNOWN)
    /\ no_pinned = FALSE
    /\ \E layout \in QueueLayouts : gpu = InitGpu(layout)
    /\ threads = InitThreads

ThreadFrame == UNCHANGED <<live, poolVars, hostVars, opVars, histVars, memory, gpu>>

\* ggml_vk_submit(q, sequences, fence) up to the lock_guard: returns at once when
\* sequences is empty, else builds submit_infos
EnterSubmit(th, func, q, sequences, fence) ==
    IF sequences = <<>>
    THEN [th EXCEPT !.func = func, !.pc = "returned", !.q = q, !.sequences = sequences,
                    !.fence = fence, !.calls = <<>>, !.passed = sequences]
    ELSE [th EXCEPT !.func = func, !.pc = "submit_lock", !.q = q, !.sequences = sequences,
                    !.fence = fence, !.calls = <<>>, !.passed = sequences]

SubmitCall(t, inputs) ==
    /\ threads.th[t].pc \in {"idle", "returned"}
    /\ \E q \in QueueNames, sequences \in inputs, fence \in {"null", "unsignaled"} :
          threads' = [threads EXCEPT !.th[t] = EnterSubmit(@, "submit", q, sequences, fence)]
    /\ ThreadFrame

\* std::lock_guard<std::mutex> guard(q.mutex): the thread enters q.queue.submit next
Lock(t) ==
    /\ threads.th[t].pc \in {"submit_lock", "read_lock"}
    /\ threads.mutex[threads.th[t].q] = 0
    /\ threads' = [threads EXCEPT !.mutex[threads.th[t].q] = t,
                                  !.th[t].pc = IF @ = "submit_lock" THEN "submit_call"
                                               ELSE "read_submit"]
    /\ ThreadFrame

\* q.queue.submit(submit_infos, fence) returns
QueueSubmit(t) ==
    /\ threads.th[t].pc \in {"submit_call", "read_submit"}
    /\ LET th == threads.th[t]
           the_call == [queue |-> gpu.queues[th.q].queue,
                        submit_infos |-> submit_infos(stage_flags(gpu.queues, th.q),
                                                      th.sequences),
                        fence |-> th.fence # "null"]
       IN threads' = [threads EXCEPT !.th[t].calls = Append(@, the_call),
                                     !.th[t].fence = IF @ = "null" THEN @ ELSE "submitted",
                                     !.th[t].pc = IF @ = "submit_call" THEN "submit_clear"
                                                  ELSE "read_wait"]
    /\ ThreadFrame

\* variant of the end of ggml_vk_submit that leaves the mutex locked
SubmitReturn_KeepLock(t) ==
    /\ threads.th[t].pc = "submit_clear"
    /\ threads' = [threads EXCEPT !.th[t].sequences = <<>>,
                                  !.th[t].pc = IF threads.th[t].func = "submit"
                                               THEN "returned" ELSE "wait_fences"]
    /\ ThreadFrame
\* sequences.clear() and the end of ggml_vk_submit, where the guard unlocks; the pinned
\* path of ggml_vk_buffer_read goes on to waitForFences
SubmitReturn(t) ==
    /\ threads.th[t].pc = "submit_clear"
    /\ threads' = [threads EXCEPT !.mutex[threads.th[t].q] = 0,
                                  !.th[t].sequences = <<>>,
                                  !.th[t].pc = IF threads.th[t].func = "submit"
                                               THEN "returned" ELSE "wait_fences"]
    /\ ThreadFrame

\* ggml_vk_buffer_read(src, offset, dst, size, q) of a buffer that is not host visible:
\* with dst in pinned memory it creates a fence and a one-submission sequence and calls
\* ggml_vk_submit(q, s, fence); else it records the copy into the staging buffer and
\* takes the mutex itself
BufferReadCall(t) ==
    /\ threads.th[t].pc \in {"idle", "returned"}
    /\ \E q \in QueueNames, pinned \in BOOLEAN :
          threads' =
              [threads EXCEPT !.th[t] =
                  IF pinned
                  THEN EnterSubmit(@, "buffer_read_pinned", q,
                                   << <<Submission(1, <<>>, <<>>)>> >>, "unsignaled")
                  ELSE [@ EXCEPT !.func = "buffer_read_staging", !.pc = "read_lock",
                                 !.q = q, !.sequences = << <<Submission(1, <<>>, <<>>)>> >>,
                                 !.fence = "unsignaled", !.calls = <<>>,
                                 !.passed = << <<Submission(1, <<>>, <<>>)>> >>]]
    /\ ThreadFrame

\* the device finishes the work a fence was submitted with
FenceSignal(t) ==
    /\ threads.th[t].fence = "submitted"
    /\ threads' = [threads EXCEPT !.th[t].fence = "signaled"]
    /\ ThreadFrame

\* vk_device.device.waitForFences({ fence }, true, uint64_t(-1)) returns: the pinned path
\* of ggml_vk_buffer_read returns, the staging path goes on to destroyFence and memcpy
WaitForFences(t) ==
    /\ threads.th[t].pc \in {"wait_fences", "read_wait"}
    /\ threads.th[t].fence = "signaled"
    /\ threads' = [threads EXCEPT !.th[t].pc = IF @ = "wait_fences" THEN "returned"
                                               ELSE "read_memcpy"]
    /\ ThreadFrame

\* memcpy(dst, src->sb_read->ptr, size) and the end of the staging path, where the guard
\* unlocks
ReadReturn(t) ==
    /\ threads.th[t].pc = "read_memcpy"
    /\ threads' = [threads EXCEPT !.mutex[threads.th[t].q] = 0, !.th[t].pc = "returned"]
    /\ ThreadFrame

\* q.queue.waitIdle() as the operators call it
WaitIdleCall(t) ==
    /\ threads.th[t].pc \in {"idle", "returned"}
    /\ \E q \in QueueNames :
          threads' = [threads EXCEPT !.th[t] = [IdleThread EXCEPT !.func = "wait_idle",
                                                                  !.pc = "wait_idle", !.q = q]]
    /\ ThreadFrame

WaitIdleReturn(t) ==
    /\ threads.th[t].pc = "wait_idle"
    /\ threads' = [threads EXCEPT !.th[t].pc = "returned"]
    /\ ThreadFrame

NextQueues ==
    \E t \in ThreadIds :
        \/ SubmitCall(t, ThreadInputs)
        \/ Lock(t)
        \/ QueueSubmit(t)
        \/ SubmitReturn(t)
        \/ BufferReadCall(t)
        \/ FenceSignal(t)
        \/ WaitForFences(t)
        \/ ReadReturn(t)
        \/ WaitIdleCall(t)
        \/ WaitIdleReturn(t)

SpecQueues == InitQueues /\ [][NextQueues]_vars

\* thread t is inside q.queue.submit
InQueueSubmit(t) == threads.th[t].pc \in {"submit_call", "read_submit"}
\* the VkQueue thread t's vk_queue struct stands for
VkQueueOf(t) == gpu.queues[threads.th[t].q].queue
\* the mutexes thread t holds
Holds(t) == {q \in QueueNames : threads.mutex[q] = t}

\* C22: every submit to a device queue is made by a thread that holds the mutex guarding
\* that device queue, so two threads are never inside a submit to the same underlying
\* device queue at the same time, whatever the queue layout.
C22_OneSubmitterPerDeviceQueue ==
    /\ \A t \in ThreadIds : InQueueSubmit(t) => threads.th[t].q \in Holds(t)
    /\ \A t, u \in ThreadIds :
          (t # u /\ InQueueSubmit(t) /\ InQueueSubmit(u)) => VkQueueOf(t) # VkQueueOf(u)

\* what the mutexes do give: a thread inside a submit holds the mutex of the vk_queue
\* struct it was given, and no two threads are inside a submit through the same struct
C22_OneSubmitterPerStruct ==
    /\ \A t \in ThreadIds : InQueueSubmit(t) => threads.th[t].q \in Holds(t)
    /\ \A t, u \in ThreadIds :
          (t # u /\ InQueueSubmit(t) /\ InQueueSubmit(u)) => threads.th[t].q # threads.th[u].q

\* thread t is at the submit call: inside q.queue.submit, or between its return and the
\* end of ggml_vk_submit
AtSubmit(t) == threads.th[t].pc \in {"submit_call", "submit_clear", "read_submit"}
\* thread t waits on a fence, waits for queue idle, or copies host memory
WaitsOrCopies(t) == threads.th[t].pc \in {"wait_fences", "read_wait", "read_memcpy", "wait_idle"}

\* C23 (as stated): a queue's mutex is held only while the submit call itself runs; no
\* thread waits on a fence, waits for queue idle, or copies host memory while it holds a
\* queue mutex.
C23_MutexOnlyAroundSubmit ==
    \A t \in ThreadIds : Holds(t) # {} => (AtSubmit(t) /\ ~WaitsOrCopies(t))

\* C23 (amended): a thread holds at most the mutex of the vk_queue struct it was given,
\* and holds it only at the submit call or, in the staging path of ggml_vk_buffer_read,
\* also while it waits on the fence and copies to the destination; the waits of the
\* pinned path and for queue idle are made without a mutex.
C23_MutexScope ==
    \A t \in ThreadIds :
        /\ Holds(t) \subseteq {threads.th[t].q}
        /\ Holds(t) # {} =>
              \/ AtSubmit(t)
              \/ /\ threads.th[t].func = "buffer_read_staging"
                 /\ threads.th[t].pc \in {"read_wait", "read_memcpy"}
        /\ threads.th[t].pc \in {"wait_fences", "wait_idle"} => Holds(t) = {}
        /\ (threads.th[t].func = "buffer_read_staging" /\ WaitsOrCopies(t)) => Holds(t) # {}

\* a staging read waits on its fence with the mutex locked while the other thread's
\* ggml_vk_submit to the same vk_queue struct waits for the mutex
C23_Witness ==
    \E t, u \in ThreadIds :
        /\ threads.th[t].pc = "read_wait"
        /\ threads.th[t].fence = "submitted"
        /\ threads.mutex[threads.th[t].q] = t
        /\ threads.th[u].pc = "submit_lock"
        /\ threads.th[u].q = threads.th[t].q

\* ------------------------------------------------------------------------
\* One caller of ggml_vk_submit
\* ------------------------------------------------------------------------
NextSubmitCall ==
    \/ SubmitCall(1, SubmitInputs)
    \/ Lock(1)
    \/ QueueSubmit(1)
    \/ SubmitReturn(1)
    \/ FenceSignal(1)

SpecSubmitCall == InitQueues /\ [][NextSubmitCall]_vars

\* number of submissions in the sequences before the i-th
RECURSIVE SubmissionsBefore(_, _)
SubmissionsBefore(sequences, i) ==
    IF i <= 1 THEN 0
    ELSE SubmissionsBefore(sequences, i - 1) + Len(sequences[i - 1])

\* the submit info at position k is that of submission s
InfoOf(infos, k, s) ==
    /\ k \in 1..Len(infos)
    /\ infos[k].commandBuffers = <<s.buffer>>
    /\ infos[k].waitSemaphores = s.wait_semaphores
    /\ Len(infos[k].waitDstStageMask) = Len(s.wait_semaphores)
    /\ infos[k].signalSemaphores = s.signal_semaphores

\* C30: ggml_vk_submit(q, sequences, fence) passes to the queue, in one call, every
\* submission of every sequence exactly once, in sequence order and within a sequence in
\* submission order, each with its own wait and signal semaphore lists, and leaves
\* sequences empty; called with no sequences it submits nothing, also when a fence is
\* passed.
C30_SubmitAllInOrder ==
    LET th == threads.th[1] IN
    (th.func = "submit" /\ th.pc = "returned") =>
        /\ th.sequences = <<>>
        /\ IF th.passed = <<>>
           THEN th.calls = <<>> /\ th.fence \in {"null", "unsignaled"}
           ELSE /\ Len(th.calls) = 1
                /\ th.calls[1].queue = gpu.queues[th.q].queue
                /\ th.calls[1].fence = (th.fence # "null")
                /\ Len(th.calls[1].submit_infos) =
                       SubmissionsBefore(th.passed, Len(th.passed) + 1)
                /\ \A i \in 1..Len(th.passed) : \A j \in 1..Len(th.passed[i]) :
                       InfoOf(th.calls[1].submit_infos,
                              SubmissionsBefore(th.passed, i) + j, th.passed[i][j])

\* ggml_vk_submit returned from a call with two sequences of three submissions in all
\* and a fence
C30_Witness ==
    LET th == threads.th[1] IN
    /\ th.func = "submit"
    /\ th.pc = "returned"
    /\ Len(th.passed) = 2
    /\ Len(th.passed[1]) = 2
    /\ th.fence = "signaled"
    /\ Len(th.calls) = 1
    /\ Len(th.calls[1].submit_infos) = 3

\* ------------------------------------------------------------------------
\* Threads that call the pool: scoped_spin_lock around pool_malloc and pool_free
\* ------------------------------------------------------------------------
\* sizes the threads ask for
ThreadSizes == {1, MaxSize}
\* number of buffers a thread owns at once
MaxOwned == 1

\* A thread of the pool: func and pc as above; size and buffer the arguments; scan the
\* locals of the loop (best_i, worst_i, or the empty slot i of pool_free) once the loop
\* is done; own the buffers the thread got from pool_malloc and has not freed.
IdlePoolThread ==
    [func |-> "none", pc |-> "idle", size |-> 0, buffer |-> ZeroBuffer,
     scan |-> ScanStart, i |-> -1, own |-> {}]

\* g_vk_pool_lock: 0 when clear, else the thread that set it
InitPoolThreads == [th |-> [t \in ThreadIds |-> IdlePoolThread], g_vk_pool_lock |-> 0]

InitPoolCalls ==
    /\ InitBackend
    /\ InitDevice(VK_DEVICE_DESCRIPTOR_POOL_MODE_UNKNOWN)
    /\ no_pinned = FALSE
    /\ gpu = NoGpu
    /\ threads = InitPoolThreads

PoolThreadFrame == UNCHANGED <<held, hostVars, opVars, histVars, memory, gpu>>

\* threads inside ggml_vk_pool_malloc
InMalloc == {t \in ThreadIds : threads.th[t].func = "pool_malloc" /\ threads.th[t].pc # "idle"}

\* a thread calls ggml_vk_pool_malloc(size, &buf, {})
ThreadMallocCall(t) ==
    /\ threads.th[t].pc = "idle"
    /\ Cardinality(threads.th[t].own) < MaxOwned
    /\ HandlesLeft(Cardinality(InMalloc) + 1)
    /\ \E size \in ThreadSizes :
          threads' = [threads EXCEPT !.th[t] = [@ EXCEPT !.func = "pool_malloc",
                                                         !.pc = "spin", !.size = size,
                                                         !.buffer = ZeroBuffer,
                                                         !.scan = ScanStart, !.i = -1]]
    /\ UNCHANGED <<live, g_vk_buffer_pool>>
    /\ PoolThreadFrame

\* a thread calls ggml_vk_pool_free(buffer) with a buffer it owns
ThreadFreeCall(t) ==
    /\ threads.th[t].pc = "idle"
    /\ \E b \in threads.th[t].own :
          threads' = [threads EXCEPT !.th[t] = [@ EXCEPT !.func = "pool_free",
                                                         !.pc = "spin", !.size = b.size,
                                                         !.buffer = b, !.own = @ \ {b},
                                                         !.scan = ScanStart, !.i = -1]]
    /\ UNCHANGED <<live, g_vk_buffer_pool>>
    /\ PoolThreadFrame

\* variant of the constructor that does not look at the flag
scoped_spin_lock_NoSpin(t) ==
    /\ threads.th[t].pc = "spin"
    /\ threads' = [threads EXCEPT !.g_vk_pool_lock = t, !.th[t].pc = "scan"]
    /\ UNCHANGED <<live, g_vk_buffer_pool>>
    /\ PoolThreadFrame
\* scoped_spin_lock lock(g_vk_pool_lock): test_and_set returns false only when the flag
\* was clear
scoped_spin_lock(t) ==
    /\ threads.th[t].pc = "spin"
    /\ threads.g_vk_pool_lock = 0
    /\ threads' = [threads EXCEPT !.g_vk_pool_lock = t, !.th[t].pc = "scan"]
    /\ UNCHANGED <<live, g_vk_buffer_pool>>
    /\ PoolThreadFrame

\* the loop over the slots: of ggml_vk_pool_malloc (best_i, worst_i), or of
\* ggml_vk_pool_free up to the first empty slot
ThreadScan(t) ==
    /\ threads.th[t].pc = "scan"
    /\ LET th == threads.th[t] IN
       threads' =
          [threads EXCEPT !.th[t] =
              IF th.func = "pool_malloc"
              THEN [th EXCEPT !.scan = PoolScan(g_vk_buffer_pool, th.size, 0, ScanStart),
                              !.pc = "update"]
              ELSE [th EXCEPT !.i = FirstEmptySlot(g_vk_buffer_pool, 0), !.pc = "update"]]
    /\ UNCHANGED <<live, g_vk_buffer_pool>>
    /\ PoolThreadFrame

\* after the loop of ggml_vk_pool_malloc: hand out slot best_i, or destroy slot worst_i
\* and create a buffer
ThreadMallocUpdate(t) ==
    /\ threads.th[t].pc = "update"
    /\ threads.th[t].func = "pool_malloc"
    /\ LET th == threads.th[t]
           h == FreshHandle(live)
       IN IF th.scan.best_i # -1
          THEN /\ threads' = [threads EXCEPT !.th[t].buffer = g_vk_buffer_pool[th.scan.best_i],
                                             !.th[t].pc = "unlock"]
               /\ g_vk_buffer_pool' = [g_vk_buffer_pool EXCEPT ![th.scan.best_i].size = 0]
               /\ UNCHANGED live
          ELSE /\ threads' = [threads EXCEPT
                                 !.th[t].buffer = ggml_vk_create_buffer(h, th.size, {DeviceLocal}),
                                 !.th[t].pc = "unlock"]
               /\ g_vk_buffer_pool' =
                      IF th.scan.worst_i # -1
                      THEN [g_vk_buffer_pool EXCEPT
                               ![th.scan.worst_i] = ggml_vk_destroy_buffer(@)]
                      ELSE g_vk_buffer_pool
               /\ live' = (live \ (IF th.scan.worst_i # -1
                                   THEN DestroyedHandles(g_vk_buffer_pool[th.scan.worst_i])
                                   ELSE {})) \cup {h}
    /\ PoolThreadFrame

\* the body of the loop of ggml_vk_pool_free at the empty slot, or the destroy after it
ThreadFreeUpdate(t) ==
    /\ threads.th[t].pc = "update"
    /\ threads.th[t].func = "pool_free"
    /\ LET th == threads.th[t] IN
       IF th.i # -1
       THEN /\ g_vk_buffer_pool' =
                   [g_vk_buffer_pool EXCEPT
                       ![th.i] = [th.buffer EXCEPT !.qf_owner = VK_QUEUE_FAMILY_IGNORED]]
            /\ UNCHANGED live
       ELSE /\ live' = live \ DestroyedHandles(th.buffer)
            /\ UNCHANGED g_vk_buffer_pool
    /\ threads' = [threads EXCEPT !.th[t].pc = "unlock"]
    /\ PoolThreadFrame

\* ~scoped_spin_lock() at the return: the caller of pool_malloc now has *buf and the
\* locals of the call are gone
ThreadReturn(t) ==
    /\ threads.th[t].pc = "unlock"
    /\ LET th == threads.th[t] IN
       threads' = [threads EXCEPT !.g_vk_pool_lock = 0,
                                  !.th[t] = [IdlePoolThread EXCEPT
                                                !.own = IF th.func = "pool_malloc"
                                                        THEN th.own \cup {th.buffer}
                                                        ELSE th.own]]
    /\ UNCHANGED <<live, g_vk_buffer_pool>>
    /\ PoolThreadFrame

NextPoolCalls ==
    \E t \in ThreadIds :
        \/ ThreadMallocCall(t)
        \/ ThreadFreeCall(t)
        \/ scoped_spin_lock(t)
        \/ ThreadScan(t)
        \/ ThreadMallocUpdate(t)
        \/ ThreadFreeUpdate(t)
        \/ ThreadReturn(t)

SpecPoolCalls == InitPoolCalls /\ [][NextPoolCalls]_vars

\* handles of the buffers thread t has: those it owns, the one pool_malloc has stored to
\* *buf, the one it has passed to pool_free and pool_free has not yet placed or destroyed
HandlesOf(t) ==
    LET th == threads.th[t] IN
    {b.buffer : b \in th.own}
        \cup (IF th.func = "pool_malloc" /\ th.pc = "unlock" THEN {th.buffer.buffer} ELSE {})
        \cup (IF th.func = "pool_free" /\ th.pc \in {"spin", "scan", "update"}
              THEN {th.buffer.buffer} ELSE {})
\* handles of the free buffers of the pool
PoolHandles == {g_vk_buffer_pool[i].buffer : i \in Occupied(g_vk_buffer_pool)}
\* threads between the constructor and the destructor of the scoped_spin_lock
InCritical == {t \in ThreadIds : threads.th[t].pc \in {"scan", "update", "unlock"}}
\* what the loop of thread t found is what the pool holds now
ScanValid(t) ==
    LET th == threads.th[t] IN
    IF th.func = "pool_malloc"
    THEN th.scan = PoolScan(g_vk_buffer_pool, th.size, 0, ScanStart)
    ELSE th.i = FirstEmptySlot(g_vk_buffer_pool, 0)

\* C24: with several threads calling pool_malloc and pool_free, each call's scan and
\* update are atomic: no free buffer is handed to two callers, no two frees land in the
\* same slot (no freed buffer is overwritten or lost), and no slot is read while another
\* thread is destroying or replacing its buffer.
C24_PoolCallsAtomic ==
    /\ \A t, u \in ThreadIds : t # u => HandlesOf(t) \cap HandlesOf(u) = {}
    /\ \A t \in ThreadIds : HandlesOf(t) \cap PoolHandles = {}
    /\ \A t \in ThreadIds : Cardinality(HandlesOf(t)) =
           Cardinality(threads.th[t].own) + Cardinality(HandlesOf(t) \ {b.buffer : b \in threads.th[t].own})
    /\ \A i, j \in Occupied(g_vk_buffer_pool) :
           i # j => g_vk_buffer_pool[i].buffer # g_vk_buffer_pool[j].buffer
    /\ live = PoolHandles \cup UNION {HandlesOf(t) : t \in ThreadIds}
    /\ Cardinality(InCritical) <= 1
    /\ \A t \in InCritical : threads.g_vk_pool_lock = t
    /\ \A t \in ThreadIds : threads.th[t].pc = "update" => ScanValid(t)

\* while one thread is between the loop and the update of a pool_free into the first
\* empty slot, another thread spins in a pool_free of its own
C24_Witness ==
    \E t, u \in ThreadIds :
        /\ threads.th[t].func = "pool_free"
        /\ threads.th[t].pc = "update"
        /\ threads.th[t].i = FirstEmptySlot(g_vk_buffer_pool, 0)
        /\ threads.th[t].i # -1
        /\ threads.th[u].func = "pool_free"
        /\ threads.th[u].pc = "spin"
        /\ threads.th[u].buffer.buffer # threads.th[t].buffer.buffer

\* ------------------------------------------------------------------------
\* A caller that holds more buffers than the pool has slots
\* ------------------------------------------------------------------------
\* number of staging buffers alive at once
MaxStaging == 2

\* the staging siblings of buffer b
Siblings(b) == {b.sb_write, b.sb_read} \ {0}

\* the staging buffers alive: those of the buffers held and of the free buffers of the pool
StagingHandles ==
    UNION ({Siblings(held[k]) : k \in 1..Len(held)}
           \cup {Siblings(g_vk_buffer_pool[i]) : i \in Occupied(g_vk_buffer_pool)})

\* a write or read through a staging buffer gives the k-th buffer the caller holds its
\* staging sibling: dst->sb_write = new vk_buffer; *dst->sb_write = ggml_vk_create_buffer(...)
AttachStaging(k, sb) ==
    /\ k \in 1..Len(held)
    /\ held[k][sb] = 0
    /\ HandlesLeft(1)
    /\ Cardinality(StagingHandles) < MaxStaging
    /\ LET h == FreshHandle(live) IN
       /\ held' = [held EXCEPT ![k][sb] = h]
       /\ live' = live \cup {h}
    /\ UNCHANGED <<g_vk_buffer_pool, hostVars, opVars, histVars, devVars>>

FullMallocStep == \E size \in {MaxSize} : PoolMallocUpTo(size, MAX_VK_BUFFERS + 1) /\ UNCHANGED hist
FullFreeStep == \E k \in 1..(MAX_VK_BUFFERS + 1) : PoolFreeCall(k) /\ UNCHANGED hist
StagingStep == \E k \in 1..(MAX_VK_BUFFERS + 1), sb \in {"sb_write", "sb_read"} : AttachStaging(k, sb)

NextPoolFull == FullMallocStep \/ FullFreeStep \/ StagingStep

SpecPoolFull == InitPool /\ [][NextPoolFull]_vars

\* the last call was a pool_free that found every slot occupied
FreeIntoFullPool == last.call = "pool_free" /\ EmptySlots(last.pre) = {}

\* C25: pool_free(b) when every pool slot is occupied destroys b and its staging
\* siblings, emits a warning, and leaves every pool slot unchanged.
C25_FreeIntoFullPoolDestroys ==
    FreeIntoFullPool =>
        /\ last.destroyed = {last.buf.buffer} \cup Siblings(last.buf)
        /\ live \cap last.destroyed = {}
        /\ last.warned
        /\ last.post = last.pre
        /\ g_vk_buffer_pool = last.pre

\* a buffer with both staging siblings was freed into a full pool
C25_Witness ==
    /\ FreeIntoFullPool
    /\ Cardinality(Siblings(last.buf)) = 2
    /\ Cardinality(last.destroyed) = 3

\* ------------------------------------------------------------------------
\* Pipelines with their descriptor pools and sets
\* ------------------------------------------------------------------------
\* pipelines created, and descriptor sets asked for at once
MaxPipelines == 2
MaxSets == 2

\* outcomes of the trial allocation of two sets from one pool: allocateDescriptorSets
\* returns, or throws vk::OutOfPoolMemoryError
TrialOutcomes == {"success", "OutOfPoolMemoryError"}

\* The device as the pipelines see it: pools the descriptor pools alive, next the handle
\* of the next pool created, trials the trial allocations made so far.
InitDescriptors == [pools |-> {}, next |-> 1, trials |-> 0]

\* the trial of ggml_vk_create_pipeline: made when the mode is unknown, with its pool
\* destroyed afterwards; the mode it leaves and the number of trials made
Trial(mode, outcome) ==
    IF mode = VK_DEVICE_DESCRIPTOR_POOL_MODE_UNKNOWN
    THEN [mode |-> IF outcome = "OutOfPoolMemoryError"
                   THEN VK_DEVICE_DESCRIPTOR_POOL_MODE_SINGLE
                   ELSE mode,
          trials |-> 1]
    ELSE [mode |-> mode, trials |-> 0]

\* the vk_pipeline ggml_vk_create_pipeline returns once the mode is settled: one pool of
\* 128 sets in multi mode, else no pool
CreatePipeline(mode, next) ==
    [descriptor_pools |-> IF mode = VK_DEVICE_DESCRIPTOR_POOL_MODE_MULTI
                          THEN <<next>> ELSE <<>>,
     descriptor_sets |-> <<>>,
     descriptor_set_index |-> 0]

\* the sets ggml_vk_pipeline_allocate_descriptor_sets(pipeline, n) adds in the loop of
\* the branch that is not multi, from set index i on: one new pool per set, the set
\* allocated from descriptor_pools[i]
RECURSIVE AllocateSingle(_, _, _, _)
AllocateSingle(pipeline, i, n, next) ==
    IF i >= n THEN pipeline
    ELSE LET pools == Append(pipeline.descriptor_pools, next)
             set == [pool |-> IF i + 1 \in 1..Len(pools) THEN pools[i + 1] ELSE 0, k |-> 1]
         IN AllocateSingle([pipeline EXCEPT !.descriptor_pools = pools,
                                            !.descriptor_sets = Append(@, set)],
                           i + 1, n, next + 1)

\* variant that empties the set list first
AllocateDescriptorSetsOf_Fresh(pipeline, n, mode, next) ==
    AllocateSingle([pipeline EXCEPT !.descriptor_sets = <<>>], 0, n, next)
\* ggml_vk_pipeline_allocate_descriptor_sets(pipeline, n): the pipeline afterwards; a set
\* is the pool it was allocated from and its number in that pool
AllocateDescriptorSetsOf(pipeline, n, mode, next) ==
    IF Len(pipeline.descriptor_sets) >= n THEN pipeline
    ELSE IF mode = VK_DEVICE_DESCRIPTOR_POOL_MODE_MULTI
    THEN LET have == Len(pipeline.descriptor_sets) IN
         [pipeline EXCEPT !.descriptor_sets =
             @ \o [j \in 1..(n - have) |-> [pool |-> pipeline.descriptor_pools[1],
                                            k |-> have + j]]]
    ELSE AllocateSingle(pipeline, Len(pipeline.descriptor_sets), n, next)

\* ggml_vk_init creates its pipelines one after the other
CreatePipelineStep ==
    /\ Len(vk_pipeline) < MaxPipelines
    /\ \E outcome \in TrialOutcomes :
          LET t == Trial(vk_device.descriptor_set_mode, outcome)
              p == CreatePipeline(t.mode, gpu.next)
          IN /\ vk_device' = [vk_device EXCEPT !.descriptor_set_mode = t.mode]
             /\ vk_pipeline' = Append(vk_pipeline, p)
             /\ gpu' = [gpu EXCEPT !.trials = @ + t.trials,
                                   !.next = @ + Len(p.descriptor_pools),
                                   !.pools = @ \cup {p.descriptor_pools[i] :
                                                        i \in 1..Len(p.descriptor_pools)}]
             /\ last' = [call |-> "create_pipeline", p |-> Len(vk_pipeline) + 1,
                         trials |-> t.trials]
    /\ UNCHANGED <<live, poolVars, hostVars, tensors, call, hist, memory, threads>>

\* an operator asks for n descriptor sets of pipeline p
AllocateStep ==
    /\ Len(vk_pipeline) = MaxPipelines
    /\ \E p \in 1..Len(vk_pipeline), n \in 0..MaxSets :
          LET r == AllocateDescriptorSetsOf(vk_pipeline[p], n, vk_device.descriptor_set_mode,
                                            gpu.next)
              created == {r.descriptor_pools[i] : i \in 1..Len(r.descriptor_pools)} \ gpu.pools
          IN /\ vk_pipeline' = [vk_pipeline EXCEPT ![p] = r]
             /\ gpu' = [gpu EXCEPT !.pools = @ \cup created,
                                   !.next = @ + Cardinality(created)]
             /\ last' = [call |-> "allocate_descriptor_sets", p |-> p, n |-> n,
                         pre |-> vk_pipeline[p]]
    /\ UNCHANGED <<live, poolVars, hostVars, vk_device, tensors, call, hist, memory, threads>>

\* ggml_vk_dispatch_pipeline takes descriptor_sets[descriptor_set_index++]
DispatchStep ==
    /\ \E p \in 1..Len(vk_pipeline) :
          /\ vk_pipeline[p].descriptor_set_index < Len(vk_pipeline[p].descriptor_sets)
          /\ vk_pipeline' = [vk_pipeline EXCEPT ![p].descriptor_set_index = @ + 1]
          /\ last' = [call |-> "dispatch_pipeline", p |-> p, pre |-> vk_pipeline[p]]
    /\ UNCHANGED <<live, poolVars, hostVars, vk_device, tensors, call, hist, devVars>>

\* variant of the cleanup that also drops the sets
PipelineCleanupOf_DropSets(pipeline) ==
    [pipeline EXCEPT !.descriptor_set_index = 0, !.descriptor_sets = <<>>]
\* ggml_vk_pipeline_cleanup(pipeline)
PipelineCleanupOf(pipeline) == [pipeline EXCEPT !.descriptor_set_index = 0]

CleanupStep ==
    /\ \E p \in 1..Len(vk_pipeline) :
          /\ vk_pipeline' = [vk_pipeline EXCEPT ![p] = PipelineCleanupOf(@)]
          /\ last' = [call |-> "pipeline_cleanup", p |-> p, pre |-> vk_pipeline[p]]
    /\ Len(vk_pipeline) = MaxPipelines
    /\ UNCHANGED <<live, poolVars, hostVars, vk_device, tensors, call, hist, devVars>>

InitPipelines ==
    /\ InitBackend
    /\ vk_device = ggml_vk_init(VK_DEVICE_DESCRIPTOR_POOL_MODE_UNKNOWN)
    /\ vk_pipeline = <<>>
    /\ no_pinned = FALSE
    /\ gpu = InitDescriptors
    /\ threads = NoThreads

NextPipelines == CreatePipelineStep \/ AllocateStep \/ DispatchStep \/ CleanupStep

SpecPipelines == InitPipelines /\ [][NextPipelines]_vars

\* C26: across any sequence of pipeline creations after init, the trial allocation is
\* performed exactly once, on the first pipeline creation; from then on the device's
\* descriptor-pool mode is multi or single and never unknown again.
C26_OneTrialThenKnown ==
    Len(vk_pipeline) >= 1 =>
        /\ gpu.trials = 1
        /\ vk_device.descriptor_set_mode \in {VK_DEVICE_DESCRIPTOR_POOL_MODE_MULTI,
                                              VK_DEVICE_DESCRIPTOR_POOL_MODE_SINGLE}

\* what the code does: the mode is never multi; a trial is made by every creation until
\* one throws, which makes the mode single for good
C26_TrialUntilSingle ==
    /\ vk_device.descriptor_set_mode \in {VK_DEVICE_DESCRIPTOR_POOL_MODE_UNKNOWN,
                                          VK_DEVICE_DESCRIPTOR_POOL_MODE_SINGLE}
    /\ vk_device.descriptor_set_mode = VK_DEVICE_DESCRIPTOR_POOL_MODE_UNKNOWN =>
          gpu.trials = Len(vk_pipeline)
    /\ vk_device.descriptor_set_mode = VK_DEVICE_DESCRIPTOR_POOL_MODE_SINGLE =>
          gpu.trials \in 1..Len(vk_pipeline)

\* the pools of pipeline p as a set
PoolsOf(p) == {p.descriptor_pools[i] : i \in 1..Len(p.descriptor_pools)}

\* C27: after allocate_descriptor_sets(p, N) returns, p holds at least N descriptor sets
\* and every set it held before is still present at the same index; each set was
\* allocated from a descriptor pool in p's pool list, one pool per set when the mode is
\* not multi; cleanup(p) sets only the cursor to 0 and changes neither sets nor pools.
C27_DescriptorSetsKept ==
    LET now == IF last.call \in {"allocate_descriptor_sets", "pipeline_cleanup"}
               THEN vk_pipeline[last.p] ELSE CreatePipeline(0, 0)
    IN /\ last.call = "allocate_descriptor_sets" =>
             /\ Len(now.descriptor_sets) >= last.n
             /\ Len(now.descriptor_sets) >= Len(last.pre.descriptor_sets)
             /\ \A i \in 1..Len(last.pre.descriptor_sets) :
                    now.descriptor_sets[i] = last.pre.descriptor_sets[i]
             /\ \A i \in 1..Len(now.descriptor_sets) :
                    /\ now.descriptor_sets[i].pool \in PoolsOf(now)
                    /\ now.descriptor_sets[i].pool \in gpu.pools
             /\ vk_device.descriptor_set_mode # VK_DEVICE_DESCRIPTOR_POOL_MODE_MULTI =>
                    /\ Len(now.descriptor_pools) = Len(now.descriptor_sets)
                    /\ \A i, j \in 1..Len(now.descriptor_sets) :
                           i # j => now.descriptor_sets[i].pool # now.descriptor_sets[j].pool
             /\ now.descriptor_set_index = last.pre.descriptor_set_index
       /\ last.call = "pipeline_cleanup" =>
             /\ now.descriptor_set_index = 0
             /\ now.descriptor_sets = last.pre.descriptor_sets
             /\ now.descriptor_pools = last.pre.descriptor_pools

\* a pipeline that held one set, already dispatched, was asked for two
C27_Witness ==
    /\ last.call = "allocate_descriptor_sets"
    /\ last.n = 2
    /\ Len(last.pre.descriptor_sets) = 1
    /\ last.pre.descriptor_set_index = 1
    /\ Len(vk_pipeline[last.p].descriptor_sets) = 2

\* a pipeline whose sets were all dispatched was cleaned up
C27_WitnessCleanup ==
    /\ last.call = "pipeline_cleanup"
    /\ last.pre.descriptor_set_index = MaxSets
    /\ Len(vk_pipeline[last.p].descriptor_sets) = MaxSets

\* ------------------------------------------------------------------------
\* Queue families: ggml_vk_find_queue_family_index and the queues of ggml_vk_init
\* ------------------------------------------------------------------------
\* queue families of a physical device
MaxFamilies == 2

QueueFlagBits == {"eGraphics", "eCompute", "eTransfer"}

\* vk::QueueFamilyProperties: queueFlags and queueCount
QueueFamilyProperties ==
    [queueFlags : SUBSET QueueFlagBits, queueCount : 1..MaxQueueCount]

\* what getQueueFamilyProperties() can return: index i of the source is i + 1 here
Devices ==
    UNION {[1..n -> QueueFamilyProperties] : n \in 1..MaxFamilies}

\* one of the four loops of ggml_vk_find_queue_family_index: the first i from index i on
\* among ok, the indices whose family satisfies the condition of the loop, or -1 when
\* the loop ends
RECURSIVE FindLoop(_, _, _)
FindLoop(queue_family_props, i, ok) ==
    IF i >= Len(queue_family_props) THEN -1
    ELSE IF i \in ok THEN i
    ELSE FindLoop(queue_family_props, i + 1, ok)

\* variant without the fall back to only required
ggml_vk_find_queue_family_index_NoFallback(queue_family_props, required, avoid, compute_index, min_num_queues) ==
    LET p(i) == queue_family_props[i + 1]
        all == 0..(Len(queue_family_props) - 1)
        enough(i) == p(i).queueCount >= min_num_queues
        other(i) == compute_index < 0 \/ i # compute_index
        has(i) == p(i).queueFlags \cap required # {}
        clean(i) == p(i).queueFlags \cap avoid = {}
        t1 == {i \in all : enough(i) /\ other(i) /\ has(i) /\ clean(i)}
        t3 == {i \in all : enough(i) /\ has(i)}
        t4 == {i \in all : has(i)}
        r1 == FindLoop(queue_family_props, 0, t1)
        r3 == FindLoop(queue_family_props, 0, t3)
        r4 == FindLoop(queue_family_props, 0, t4)
    IN IF r1 # -1 THEN [abort |-> FALSE, index |-> r1]
       ELSE IF r3 # -1 THEN [abort |-> FALSE, index |-> r3]
       ELSE IF r4 # -1 THEN [abort |-> FALSE, index |-> r4]
       ELSE [abort |-> TRUE, index |-> -1]
\* ggml_vk_find_queue_family_index(queue_family_props, required, avoid, compute_index,
\* min_num_queues): the index returned, or abort()
ggml_vk_find_queue_family_index(queue_family_props, required, avoid, compute_index, min_num_queues) ==
    LET p(i) == queue_family_props[i + 1]
        all == 0..(Len(queue_family_props) - 1)
        enough(i) == p(i).queueCount >= min_num_queues
        other(i) == compute_index < 0 \/ i # compute_index
        has(i) == p(i).queueFlags \cap required # {}
        clean(i) == p(i).queueFlags \cap avoid = {}
        t1 == {i \in all : enough(i) /\ other(i) /\ has(i) /\ clean(i)}
        t2 == {i \in all : enough(i) /\ other(i) /\ has(i)}
        t3 == {i \in all : enough(i) /\ has(i)}
        t4 == {i \in all : has(i)}
        r1 == FindLoop(queue_family_props, 0, t1)
        r2 == FindLoop(queue_family_props, 0, t2)
        r3 == FindLoop(queue_family_props, 0, t3)
        r4 == FindLoop(queue_family_props, 0, t4)
    IN IF r1 # -1 THEN [abort |-> FALSE, index |-> r1]
       ELSE IF r2 # -1 THEN [abort |-> FALSE, index |-> r2]
       ELSE IF r3 # -1 THEN [abort |-> FALSE, index |-> r3]
       ELSE IF r4 # -1 THEN [abort |-> FALSE, index |-> r4]
       ELSE [abort |-> TRUE, index |-> -1]

\* the flags ggml_vk_init asks the transfer family to avoid, among those of the model
TransferAvoid == {"eCompute", "eGraphics"}

\* ggml_vk_init from getQueueFamilyProperties() on: pc is "props" before the families are
\* looked up, "compute" and "transfer" after each lookup, "queues" once the three
\* vk_queue structs are filled, "aborted" after abort()
InitFamilies(props) ==
    [queue_family_props |-> props, pc |-> "props", compute_queue_family_index |-> -1,
     transfer_queue_family_index |-> -1, queues |-> <<>>]

InitInit ==
    /\ InitBackend
    /\ InitDevice(VK_DEVICE_DESCRIPTOR_POOL_MODE_UNKNOWN)
    /\ no_pinned = FALSE
    /\ threads = NoThreads
    /\ \E props \in Devices : gpu = InitFamilies(props)

FamilyFrame == UNCHANGED <<live, poolVars, hostVars, opVars, hist, memory, threads>>

FindCall(required, avoid, compute_index, min_num_queues) ==
    [call |-> "find_queue_family_index", required |-> required, avoid |-> avoid,
     compute_index |-> compute_index, min_num_queues |-> min_num_queues,
     result |-> ggml_vk_find_queue_family_index(gpu.queue_family_props, required, avoid,
                                                compute_index, min_num_queues)]

\* compute_queue_family_index = ggml_vk_find_queue_family_index(props, eCompute, eGraphics, -1, 1)
FindComputeStep ==
    /\ gpu.pc = "props"
    /\ last' = FindCall({"eCompute"}, {"eGraphics"}, -1, 1)
    /\ gpu' = [gpu EXCEPT !.pc = IF last'.result.abort THEN "aborted" ELSE "compute",
                          !.compute_queue_family_index = last'.result.index]
    /\ FamilyFrame

\* transfer_queue_family_index = ggml_vk_find_queue_family_index(props, eTransfer,
\* eCompute | eGraphics | ..., compute_queue_family_index, 2)
FindTransferStep ==
    /\ gpu.pc = "compute"
    /\ last' = FindCall({"eTransfer"}, TransferAvoid, gpu.compute_queue_family_index, 2)
    /\ gpu' = [gpu EXCEPT !.pc = IF last'.result.abort THEN "aborted" ELSE "transfer",
                          !.transfer_queue_family_index = last'.result.index]
    /\ FamilyFrame

\* the rest of ggml_vk_init: transfer_queue_count and the three vk_queue structs
CreateQueuesStep ==
    /\ gpu.pc = "transfer"
    /\ gpu' = [gpu EXCEPT
                  !.pc = "queues",
                  !.queues = QueueLayout(
                      gpu.compute_queue_family_index = gpu.transfer_queue_family_index,
                      gpu.queue_family_props[gpu.transfer_queue_family_index + 1].queueCount)]
    /\ last' = NoCall
    /\ FamilyFrame

\* any other call of the lookup
FindAnyStep ==
    /\ gpu.pc = "queues"
    /\ \E required \in {{"eCompute"}, {"eTransfer"}},
          avoid \in {{"eGraphics"}, TransferAvoid},
          compute_index \in -1..(Len(gpu.queue_family_props) - 1),
          min_num_queues \in 1..VK_TRANSFER_QUEUE_COUNT :
          last' = FindCall(required, avoid, compute_index, min_num_queues)
    /\ UNCHANGED gpu
    /\ FamilyFrame

NextInit == FindComputeStep \/ FindTransferStep \/ CreateQueuesStep \/ FindAnyStep

SpecInit == InitInit /\ [][NextInit]_vars

\* the families of the four tiers, by the source's index
Tier(k) ==
    LET props == gpu.queue_family_props
        has(i) == props[i + 1].queueFlags \cap last.required # {}
        clean(i) == props[i + 1].queueFlags \cap last.avoid = {}
        enough(i) == props[i + 1].queueCount >= last.min_num_queues
        other(i) == i # last.compute_index
        all == 0..(Len(props) - 1)
    IN CASE k = 1 -> {i \in all : has(i) /\ clean(i) /\ enough(i) /\ other(i)}
         [] k = 2 -> {i \in all : has(i) /\ enough(i) /\ other(i)}
         [] k = 3 -> {i \in all : has(i) /\ enough(i)}
         [] k = 4 -> {i \in all : has(i)}

Lowest(S) == CHOOSE i \in S : \A j \in S : i <= j

\* C29: find_queue_family_index returns the lowest-index family of the first satisfiable
\* tier: (1) a required flag, none of the avoided flags, queueCount >= minimum, not the
\* compute family; (2) as 1 without the avoid condition; (3) as 2 with the compute family
\* allowed; (4) a required flag, any queue count; it aborts only when no family has a
\* required flag.
C29_FirstSatisfiableTier ==
    last.call = "find_queue_family_index" =>
        /\ last.result.abort <=> (Tier(4) = {})
        /\ \A k \in 1..4 :
              (Tier(k) # {} /\ \A j \in 1..(k - 1) : Tier(j) = {}) =>
                  last.result.index = Lowest(Tier(k))

\* the lookup of the transfer family fell back to the compute family, which is not the
\* first family of the device
C29_Witness ==
    /\ last.call = "find_queue_family_index"
    /\ last.compute_index = 1
    /\ Tier(1) = {} /\ Tier(2) = {} /\ Tier(3) = {1}
    /\ last.result.index = 1
    /\ 0 \in Tier(4)

\* the transfer family is the compute family and ggml_vk_init created transfer queues
SameFamilyWithTransferQueues ==
    /\ gpu.pc = "queues"
    /\ gpu.compute_queue_family_index = gpu.transfer_queue_family_index
    /\ gpu.queues.tr0q.pool # "compq"

\* C28: when the transfer family is the compute family and at least one transfer queue
\* is created, the compute queue uses queue index 0 and every transfer queue an index
\* >= 1, for every queue count of the family; the transfer slots share the compute queue
\* only when no transfer queue is available.
C28_TransferQueuesApart ==
    gpu.pc = "queues" =>
        /\ gpu.queues.compq.queue[2] = 0
        /\ SameFamilyWithTransferQueues =>
              /\ gpu.queues.tr0q.queue[2] >= 1
              /\ gpu.queues.tr1q.queue[2] >= 1
        /\ \A q \in {"tr0q", "tr1q"} :
              gpu.queues[q].queue = gpu.queues.compq.queue => gpu.queues[q].pool = "compq"

\* what the code does in that case: transfer queue 0 gets index 1 and transfer queue 1
\* index 0, the VkQueue of the compute queue, whatever the queue count of the family
C28_SecondTransferQueueOnCompute ==
    SameFamilyWithTransferQueues =>
        /\ gpu.queues.tr0q.queue[2] = 1
        /\ gpu.queues.tr1q.queue = gpu.queues.compq.queue

\* ------------------------------------------------------------------------
\* Specification of the asynchronous read under direct calls
\* ------------------------------------------------------------------------
\* variant that creates the submission before it looks at the destination
ggml_vk_buffer_read_async_bytes_CheckLast(reg, src, offset, dst, size, q, own) ==
    LET i == PinnedIndex(reg, dst, 1)
        q1 == IF own THEN ggml_vk_create_cmd_buffer(q) ELSE q
    IN IF i = 0 THEN [line |-> 1292, q |-> q1, cmds |-> <<>>]
       ELSE [line |-> 0, q |-> q1,
             cmds |-> <<CmdCopyBuffer(src.buffer, reg[i][3].buffer,
                                      <<BufferCopy(offset, dst - reg[i][1], size)>>)>>]

\* ggml_vk_buffer_read_async(src, offset, dst, size, q, {}, {}, s) on registry reg, own
\* being TRUE when s == nullptr: line is the line of the assertion that fails (0 if
\* none), q the queue afterwards, cmds the commands recorded into the submission
ggml_vk_buffer_read_async_bytes(reg, src, offset, dst, size, q, own) ==
    LET i == PinnedIndex(reg, dst, 1) IN
    IF i = 0 THEN [line |-> 1292, q |-> q, cmds |-> <<>>]
    ELSE [line |-> 0, q |-> IF own THEN ggml_vk_create_cmd_buffer(q) ELSE q,
          cmds |-> <<CmdCopyBuffer(src.buffer, reg[i][3].buffer,
                                   <<BufferCopy(offset, dst - reg[i][1], size)>>)>>]

\* destinations of n bytes the host passes: the heap, a place in a mapping, or the
\* address just past the end of a mapping
ReadDsts(n) ==
    HostPlaces(n) \cup
    {vk_pinned_memory[i][1] + vk_pinned_memory[i][2] : i \in 1..Len(vk_pinned_memory)}

ReadAsyncMallocStep == call.pc = "idle" /\ HostMallocStepB
\* the caller gets the one buffer it reads from
ReadAsyncPoolStep == call.pc = "idle" /\ held = <<>> /\ PoolMallocStep

\* a caller reads size bytes at offset of the k-th buffer it holds into dst with
\* ggml_vk_buffer_read_async on queue qn; a failed assertion ends the process
ReadAsyncCall(k, offset, dst, size, qn, own) ==
    /\ call.pc = "idle"
    /\ k \in 1..Len(held)
    /\ offset + size <= held[k].size
    /\ GetQueue(vk_device, qn).cmd_buffer_idx < MaxCmdBuffers
    /\ LET r == ggml_vk_buffer_read_async_bytes(vk_pinned_memory, held[k], offset, dst, size,
                                                GetQueue(vk_device, qn), own)
       IN /\ vk_device' = SetQueue(vk_device, qn, r.q)
          /\ call' = IF r.line = 0 THEN call
                     ELSE [call EXCEPT !.pc = "aborted", !.fault = "assert", !.line = r.line]
          /\ last' = [call |-> "buffer_read_async", dst |-> dst, own |-> own, qn |-> qn,
                      pinned |-> (PinnedIndex(vk_pinned_memory, dst, 1) # 0),
                      pre |-> GetQueue(vk_device, qn), cmds |-> r.cmds]
    /\ UNCHANGED <<live, g_vk_buffer_pool, vk_pinned_memory, no_pinned, held, host_ptrs,
                   tensors, vk_pipeline, hist, devVars>>

ReadAsyncStep ==
    \E offset \in {0, 1}, size \in 1..2, qn \in {"compq", "tr0q"}, own \in BOOLEAN :
        \E dst \in ReadDsts(size) : ReadAsyncCall(1, offset, dst, size, qn, own)

NextReadAsync == ReadAsyncMallocStep \/ ReadAsyncPoolStep \/ ReadAsyncStep

SpecReadAsync == InitBytes /\ [][NextReadAsync]_vars

\* the last call was a ggml_vk_buffer_read_async with a destination in no registered range
ReadAsyncUnpinned == last.call = "buffer_read_async" /\ ~last.pinned

\* C31: a ggml_vk_buffer_read_async whose destination lies in no range of the pinned
\* registry ends in the assertion of line 1292, and the queue's command-buffer ring is as
\* before the call and no copy has been recorded.
C31_ReadAsyncUnpinnedAsserts ==
    ReadAsyncUnpinned =>
        /\ call.pc = "aborted" /\ call.fault = "assert" /\ call.line = 1292
        /\ GetQueue(vk_device, last.qn) = last.pre
        /\ last.cmds = <<>>

\* a call that would make its own submission was given the address just past the end of
\* a registered mapping
C31_Witness ==
    /\ ReadAsyncUnpinned
    /\ last.own
    /\ \E i \in 1..Len(vk_pinned_memory) :
          last.dst = vk_pinned_memory[i][1] + vk_pinned_memory[i][2]

\* ------------------------------------------------------------------------
\* Commands recorded by ggml_vk_matmul
\* ------------------------------------------------------------------------
\* a vk_subbuffer { buf, offset, size }
Subbuffer(buf, offset, size) == [buffer |-> buf, offset |-> offset, size |-> size]

\* cmd_buffer.pipelineBarrier(q.stage_flags, q.stage_flags, {}, {}, bmem_barriers, {})
CmdPipelineBarrier(src_mask, dst_mask, bmem_barriers) ==
    [cmd |-> "pipelineBarrier", src_mask |-> src_mask, dst_mask |-> dst_mask,
     bmem_barriers |-> bmem_barriers]

\* what ggml_vk_sync_buffers(cmd_buffer, buffers, q, src_mask, dst_mask, force_sync)
\* records: nothing if no barrier is needed
SyncCmds(buffers, q, src_mask, dst_mask, force_sync) ==
    LET r == ggml_vk_sync_buffers(buffers, q, force_sync) IN
    IF r.bmem_barriers = <<>> THEN <<>>
    ELSE <<CmdPipelineBarrier(src_mask, dst_mask, r.bmem_barriers)>>

\* ggml_vk_dispatch_pipeline(s, pipeline, buffers, ..., push_constants, elements): the
\* pipelines afterwards and the dispatch recorded, with the descriptor set it took
ggml_vk_dispatch_pipeline_cmd(pls, pipeline, buffers, push_constants, elements) ==
    [pls |-> [pls EXCEPT ![pipeline] = ggml_vk_dispatch_pipeline(@)],
     cmd |-> [cmd |-> "dispatch", pipeline |-> pipeline,
              descriptor_set |-> pls[pipeline].descriptor_set_index,
              buffers |-> [i \in 1..Len(buffers) |->
                              [buffer |-> buffers[i].buffer.buffer,
                               offset |-> buffers[i].offset, size |-> buffers[i].size]],
              push_constants |-> push_constants, elements |-> elements]]

\* variant whose second synchronisation of d is not forced
ggml_vk_matmul_cmds_NoForce(pls, pipeline, a, b, d, m, n, k, stride_a, stride_b, stride_d, split_k, q) ==
    LET q1 == ggml_vk_create_cmd_buffer(q)
        sync_ab == SyncCmds(<<a, b>>, q1, {"eMemoryWrite"}, {"eShaderRead"}, FALSE)
        sync_d == SyncCmds(<<d>>, q1, {"eMemoryRead"}, {"eShaderWrite"}, FALSE)
    IN IF split_k = 1
       THEN LET r == ggml_vk_dispatch_pipeline_cmd(pls, pipeline, <<a, b, d>>,
                        <<m, n, k, stride_a, stride_b, stride_d, k>>,
                        <<m, n, 1>>)
            IN [pls |-> r.pls, q |-> q1, cmds |-> sync_ab \o sync_d \o <<r.cmd>>]
       ELSE LET r1 == ggml_vk_dispatch_pipeline_cmd(pls, pipeline, <<a, b, d>>,
                        <<m, n, k, stride_a, stride_b, stride_d, CEIL_DIV(stride_a, split_k)>>,
                        <<m * split_k, n, 1>>)
                sync == SyncCmds(<<d>>, q1, {"eMemoryWrite"}, {"eShaderRead", "eShaderWrite"},
                                 FALSE)
                r2 == ggml_vk_dispatch_pipeline_cmd(r1.pls, "matmul_split_k_reduce", <<d>>,
                        <<m, n, split_k>>, <<m, n, 1>>)
            IN [pls |-> r2.pls, q |-> q1,
                cmds |-> sync_ab \o sync_d \o <<r1.cmd>> \o sync \o <<r2.cmd>>]

\* ggml_vk_matmul(pipeline, a, b, d, m, n, k, stride_a, stride_b, stride_d, split_k, q,
\* wait_semaphores, signal_semaphores): the pipelines and the queue afterwards and the
\* commands recorded into the command buffer of its one submission; m, n and split_k are
\* positive and small, so that the casts to uint32_t keep their values
ggml_vk_matmul_cmds(pls, pipeline, a, b, d, m, n, k, stride_a, stride_b, stride_d, split_k, q) ==
    LET q1 == ggml_vk_create_cmd_buffer(q)
        sync_ab == SyncCmds(<<a, b>>, q1, {"eMemoryWrite"}, {"eShaderRead"}, FALSE)
        sync_d == SyncCmds(<<d>>, q1, {"eMemoryRead"}, {"eShaderWrite"}, FALSE)
    IN IF split_k = 1
       THEN LET r == ggml_vk_dispatch_pipeline_cmd(pls, pipeline, <<a, b, d>>,
                        <<m, n, k, stride_a, stride_b, stride_d, k>>,
                        <<m, n, 1>>)
            IN [pls |-> r.pls, q |-> q1, cmds |-> sync_ab \o sync_d \o <<r.cmd>>]
       ELSE LET r1 == ggml_vk_dispatch_pipeline_cmd(pls, pipeline, <<a, b, d>>,
                        <<m, n, k, stride_a, stride_b, stride_d, CEIL_DIV(stride_a, split_k)>>,
                        <<m * split_k, n, 1>>)
                sync == SyncCmds(<<d>>, q1, {"eMemoryWrite"}, {"eShaderRead", "eShaderWrite"},
                                 TRUE)
                r2 == ggml_vk_dispatch_pipeline_cmd(r1.pls, "matmul_split_k_reduce", <<d>>,
                        <<m, n, split_k>>, <<m, n, 1>>)
            IN [pls |-> r2.pls, q |-> q1,
                cmds |-> sync_ab \o sync_d \o <<r1.cmd>> \o sync \o <<r2.cmd>>]

\* ------------------------------------------------------------------------
\* Specification of the matmul submissions of an operator
\* ------------------------------------------------------------------------
\* shapes M, N, K of the products: split_k is 1 for the first two and 4 for the others
MatmulShapes == {Shape(32, 32, 32), Shape(64, 64, 128), Shape(32, 32, 256), Shape(64, 128, 256)}
\* (bit16_x, bit16_y) of the pipelines an operator asks for
MatmulBits == {<<FALSE, FALSE>>, <<TRUE, TRUE>>, <<TRUE, FALSE>>}

InitMatmul ==
    /\ InitCommon
    /\ \E mode \in {VK_DEVICE_DESCRIPTOR_POOL_MODE_UNKNOWN,
                    VK_DEVICE_DESCRIPTOR_POOL_MODE_SINGLE} : InitDevice(mode)
    /\ no_pinned = FALSE

\* what a matmul operator computes before its loop for a product of shape s in n batches
MatmulLocals(s, bits, n) ==
    LET kpad == ggml_vk_align_size(s.k, ggml_vk_guess_matmul_pipeline_align(s.m, s.n))
        split_k == ggml_vk_guess_split_k(s.m, s.n, s.k)
    IN [m |-> s.m, n |-> s.n, k |-> s.k, batches |-> n, split_k |-> split_k,
        pipeline |-> ggml_vk_guess_matmul_pipeline(bits[1], bits[2], s.m, s.n, s.k = kpad),
        x_sz |-> ggml_vk_align_size(4 * (s.m * s.k), minStorageBufferOffsetAlignment),
        y_sz |-> ggml_vk_align_size(4 * (s.n * s.k), minStorageBufferOffsetAlignment),
        d_sz |-> ggml_vk_align_size(4 * (s.n * s.m) * split_k,
                                    minStorageBufferOffsetAlignment)]

\* the operator up to its loop: the three buffers and the descriptor sets
MatmulBeginStep ==
    /\ call.pc = "idle"
    /\ call.count < MaxCalls
    /\ HandlesLeft(3)
    /\ \E s \in MatmulShapes, bits \in MatmulBits, n \in 1..MaxBatch :
        LET l == MatmulLocals(s, bits, n)
            m == Exec(Machine(IdleCall),
                      <<PoolMalloc("d_X", l.x_sz * n), PoolMalloc("d_Y", l.y_sz * n),
                        PoolMalloc("d_D", l.d_sz * n),
                        AllocateDescriptorSets(l.pipeline, n)>>
                      \o (IF l.split_k > 1
                          THEN <<AllocateDescriptorSets("matmul_split_k_reduce", n)>>
                          ELSE <<>>),
                      vk_pinned_memory)
        IN /\ Commit(m)
           /\ call' = [IdleCall EXCEPT !.pc = "loop", !.func = "ggml_vk_matmul",
                                       !.count = call.count + 1, !.bufs = m.bufs, !.loaned = m.loaned]
           /\ hist' = <<l>>
           /\ last' = NoCall
    /\ UNCHANGED <<held, hostVars, tensors, devVars>>

\* one iteration of the loop: the ggml_vk_matmul call on the compute queue
MatmulStep ==
    /\ call.pc = "loop"
    /\ call.it < hist[1].batches
    /\ LET l == hist[1]
           d == Subbuffer(call.bufs["d_D"], l.d_sz * call.it, l.d_sz)
           r == ggml_vk_matmul_cmds(vk_pipeline, l.pipeline,
                    Subbuffer(call.bufs["d_X"], l.x_sz * call.it, l.x_sz),
                    Subbuffer(call.bufs["d_Y"], l.y_sz * call.it, l.y_sz), d,
                    l.m, l.n, l.k, l.k, l.k, l.m, l.split_k, vk_device.compute_queue)
       IN /\ vk_pipeline' = r.pls
          /\ vk_device' = [vk_device EXCEPT !.compute_queue = r.q]
          /\ call' = [call EXCEPT !.it = @ + 1]
          /\ last' = [call |-> "matmul", pls |-> vk_pipeline, q |-> vk_device.compute_queue,
                      d |-> [buffer |-> d.buffer.buffer, offset |-> d.offset,
                             size |-> d.size],
                      cmds |-> r.cmds]
    /\ UNCHANGED <<live, g_vk_buffer_pool, held, hostVars, tensors, hist, devVars>>

\* the operator after its loop
MatmulEndStep ==
    /\ call.pc = "loop"
    /\ call.it = hist[1].batches
    /\ LET m == Exec(Machine(call),
                     <<QueueCleanup("compq"), PipelineCleanup(hist[1].pipeline),
                       PipelineCleanup("matmul_split_k_reduce"),
                       PoolFree("d_X"), PoolFree("d_Y"), PoolFree("d_D")>>,
                     vk_pinned_memory)
       IN /\ Commit(m)
          /\ call' = [IdleCall EXCEPT !.count = call.count]
          /\ hist' = <<>>
          /\ last' = NoCall
    /\ UNCHANGED <<held, hostVars, tensors, devVars>>

NextMatmul == MatmulBeginStep \/ MatmulStep \/ MatmulEndStep

SpecMatmul == InitMatmul /\ [][NextMatmul]_vars

\* the descriptor cursor of pipeline p has advanced by k in the last ggml_vk_matmul call
Advanced(p, k) ==
    vk_pipeline[p].descriptor_set_index = last.pls[p].descriptor_set_index + k

\* the command is a dispatch of pipeline p over the grid extents given
IsDispatch(c, p, elements) == c.cmd = "dispatch" /\ c.pipeline = p /\ c.elements = elements

\* C32: a ggml_vk_matmul call with split_k > 1 records into one command buffer, in this
\* order, the matmul dispatch over (M*split_k, N, 1), a barrier on the destination
\* sub-buffer from memory write to shader read and write, and the split_k_reduce dispatch
\* with push constants (M, N, split_k) on that same sub-buffer, and advances the cursor of
\* the matmul pipeline and of the reduce pipeline by one each; with split_k = 1 it
\* records the matmul dispatch over (M, N, 1) alone and advances the matmul cursor by one.
C32_MatmulRecords ==
    last.call = "matmul" =>
        LET l == hist[1] IN
        /\ vk_device.compute_queue.cmd_buffer_idx = last.q.cmd_buffer_idx + 1
        /\ Advanced(l.pipeline, 1)
        /\ \A p \in PipelineNames \ {l.pipeline, "matmul_split_k_reduce"} : Advanced(p, 0)
        /\ IF l.split_k > 1
           THEN /\ Len(last.cmds) = 3
                /\ IsDispatch(last.cmds[1], l.pipeline, <<l.m * l.split_k, l.n, 1>>)
                /\ last.cmds[2] =
                       CmdPipelineBarrier({"eMemoryWrite"}, {"eShaderRead", "eShaderWrite"},
                           <<[sfi |-> VK_QUEUE_FAMILY_IGNORED, dfi |-> VK_QUEUE_FAMILY_IGNORED,
                              buffer |-> last.d.buffer, offset |-> last.d.offset,
                              size |-> last.d.size]>>)
                /\ IsDispatch(last.cmds[3], "matmul_split_k_reduce", <<l.m, l.n, 1>>)
                /\ last.cmds[3].push_constants = <<l.m, l.n, l.split_k>>
                /\ last.cmds[3].buffers = <<last.d>>
                /\ Advanced("matmul_split_k_reduce", 1)
           ELSE /\ Len(last.cmds) = 1
                /\ IsDispatch(last.cmds[1], l.pipeline, <<l.m, l.n, 1>>)
                /\ Advanced("matmul_split_k_reduce", 0)

\* the second batch of a product with split_k = 4 has been recorded
C32_Witness ==
    /\ last.call = "matmul"
    /\ hist[1].split_k > 1
    /\ call.it = 2
    /\ last.d.offset > 0
    /\ Len(last.cmds) = 3

\* ------------------------------------------------------------------------
\* Specification of the operators on devices with and without fp16 arithmetic
\* ------------------------------------------------------------------------
\* the pipelines ggml_vk_init creates on a device whose fp16 flag is as given
CreatedPipelines(fp16) ==
    {"matmul_f32_l", "matmul_f32_m", "matmul_f32_s",
     "matmul_f32_aligned_l", "matmul_f32_aligned_m", "matmul_f32_aligned_s"}
    \cup (IF fp16
          THEN {"matmul_f16_l", "matmul_f16_m", "matmul_f16_s",
                "matmul_f16_aligned_l", "matmul_f16_aligned_m", "matmul_f16_aligned_s",
                "matmul_f16_f32_l", "matmul_f16_f32_m", "matmul_f16_f32_s",
                "matmul_f16_f32_aligned_l", "matmul_f16_f32_aligned_m",
                "matmul_f16_f32_aligned_s",
                "dequant_mul_mat_vec_f16", "dequant_mul_mat_vec_q4_0"}
          ELSE {})
    \cup {"matmul_split_k_reduce", "f32_to_f16", "dequant_q4_0",
          "dequant_mul_mat_vec_f16_f32", "dequant_mul_mat_vec_q4_0_f32", "mul_f32"}

\* the kernels that need fp16 arithmetic
Fp16Kernels == PipelineNames \ CreatedPipelines(FALSE)

\* the device has VK_KHR_16bit_storage; fp16 says whether it has
\* VK_KHR_shader_float16_int8 and shaderFloat16 as well. A pipeline that was not created
\* is a zero-initialised global: no pools, no sets
InitFp16 ==
    /\ InitCommon
    /\ \E fp16 \in BOOLEAN :
        /\ vk_device = [ggml_vk_init(VK_DEVICE_DESCRIPTOR_POOL_MODE_SINGLE)
                            EXCEPT !.fp16 = fp16]
        /\ vk_pipeline = [p \in PipelineNames |->
                             ggml_vk_create_pipeline(VK_DEVICE_DESCRIPTOR_POOL_MODE_SINGLE)]
    /\ no_pinned = FALSE

\* one node: the weights (src0) are on the heap, the activations in the pinned arena
ComputeForwardStepH ==
    /\ call.count < 1
    /\ vk_pinned_memory # <<>>
    /\ \E d \in OpShapes, b \in OpBatches, op \in {GGML_OP_MUL, GGML_OP_MUL_MAT} :
        \E tensor \in NodesOf(op, d, b, "heap", "pinned", OpTypes, {GGML_BACKEND_CPU},
                              {GGML_TYPE_F32}, {GGML_BACKEND_CPU}) :
            ComputeForward(NoParams, tensor)

\* the pipelines the operator in progress allocates descriptor sets of
PipelinesOf(c) ==
    LET ops == Begin(c.func, c.node) IN
    {ops[i].pipeline : i \in {j \in DOMAIN ops : ops[j].do = "allocate_descriptor_sets"}}

\* allocating descriptor sets of a pipeline that was not created hands a null layout to
\* the device, dispatching it binds a null pipeline: the process may crash at any point
\* after the first such call, or run on
UncreatedCrashStep ==
    /\ call.pc \in {"loop", "end"}
    /\ PipelinesOf(call) \ CreatedPipelines(vk_device.fp16) # {}
    /\ call' = [call EXCEPT !.pc = "aborted", !.fault = "ub", !.line = 219]
    /\ UNCHANGED <<live, poolVars, hostVars, vk_device, vk_pipeline, tensors, histVars,
                   devVars>>

NextFp16 ==
    \/ HostArenaStep0
    \/ ComputeForwardStepH
    \/ BatchStep
    \/ FinishStep
    \/ ReturnStep
    \/ UncreatedCrashStep

SpecFp16 == InitFp16 /\ [][NextFp16]_vars

\* C33: on a device that is not fp16-capable, every pipeline an accepted operator
\* dispatches was created by ggml_vk_init, so that no fp16 kernel is dispatched.
C33_NoFp16KernelWithoutFp16 ==
    ~vk_device.fp16 =>
        \A i \in 1..Len(call.dispatched) :
            /\ call.dispatched[i].pipeline \in CreatedPipelines(vk_device.fp16)
            /\ call.dispatched[i].pipeline \notin Fp16Kernels

\* on an fp16-capable device every pipeline dispatched was created
C33_CreatedWithFp16 ==
    vk_device.fp16 =>
        \A i \in 1..Len(call.dispatched) :
            call.dispatched[i].pipeline \in CreatedPipelines(vk_device.fp16)

\* ------------------------------------------------------------------------
\* Specification of one operator: the cursors it leaves behind
\* ------------------------------------------------------------------------
\* one node of any operator, after the host has set up its arena and resident tensors
ComputeForwardStepC ==
    /\ call.count < 1
    /\ vk_pinned_memory # <<>>
    /\ \E d \in OpShapes, b \in OpBatches, op \in {GGML_OP_MUL, GGML_OP_MUL_MAT} :
        \E tensor \in NodesOf(op, d, b, "heap", "pinned", OpTypes, {GGML_BACKEND_CPU},
                              {GGML_TYPE_F32}, {GGML_BACKEND_CPU}) :
            ComputeForward(NoParams, tensor)

NextCursors ==
    \/ HostArenaStep0
    \/ TransformTensorStep
    \/ ComputeForwardStepC
    \/ BatchStep
    \/ FinishStep
    \/ ReturnStep

SpecCursors == InitSingle /\ [][NextCursors]_vars

\* the elements of a sequence
Range(s) == {s[i] : i \in DOMAIN s}

\* the statements of the operator of call c: its prologue, all its iterations, its epilogue
LoopStmts(c) ==
    LET ne02 == c.node.src0.ne[3]
        ne03 == c.node.src0.ne[4]
    IN Range(Begin(c.func, c.node)) \cup Range(End(c.func, c.node)) \cup
       UNION {Range(Loop(c.func, c.node, it \div ne02, it % ne02, flush)) :
                 it \in 0..(ne02 * ne03 - 1), flush \in BOOLEAN}

\* the queues the operator of call c takes a command buffer or a semaphore from
QueuesTaken(c) ==
    {o.q : o \in {s \in LoopStmts(c) :
                     \/ s.do \in {"create_semaphore", "begin_submission"}
                     \/ (s.do \in {"h2d_tensor_2d", "buffer_write_2d_async_zeropad",
                                   "buffer_read_async"} /\ s.own)}}

\* the pipelines the operator of call c dispatches
PipelinesDispatched(c) == {o.pipeline : o \in {s \in LoopStmts(c) : s.do = "dispatch_pipeline"}}

\* an operator has run and returned
OperatorReturned == call.pc = "returned" /\ call.func # "none"

\* C34: after an operator has returned, every queue it took a command buffer or a
\* semaphore from has its command-buffer cursor and its semaphore cursor at 0, and every
\* pipeline it dispatched has its descriptor-set cursor at 0.
C34_CursorsReset ==
    OperatorReturned =>
        /\ \A q \in QueuesTaken(call) :
              /\ GetQueue(vk_device, q).cmd_buffer_idx = 0
              /\ GetQueue(vk_device, q).semaphore_idx = 0
        /\ \A p \in PipelinesDispatched(call) : vk_pipeline[p].descriptor_set_index = 0

\* a product of quantized weights in two batches has returned: it took command buffers
\* from all three queues and dispatched the dequantisation, the matmul and the reduction
C34_Witness ==
    /\ OperatorReturned
    /\ call.func = "ggml_vk_mul_mat_q_f16"
    /\ call.it = 2
    /\ QueuesTaken(call) = QueueNames
    /\ {"dequant_q4_0", "matmul_split_k_reduce"} \subseteq PipelinesDispatched(call)
    /\ \A q \in QueueNames : GetQueue(vk_device, q).cmd_buffers > 0

\* ------------------------------------------------------------------------
\* Specification of the semaphores of one operator
\* ------------------------------------------------------------------------
ComputeForwardStepM ==
    /\ call.count = 0
    /\ vk_pinned_memory # <<>>
    /\ \E d \in DeviceShapes, b \in SubmitBatches, op \in {GGML_OP_MUL, GGML_OP_MUL_MAT} :
        \E tensor \in NodesOf(op, d, b, "heap", "pinned", OpTypes, {GGML_BACKEND_CPU},
                              {GGML_TYPE_F32}, {GGML_BACKEND_CPU}) :
            ComputeForward(NoParams, tensor)

NextSemaphores ==
    \/ HostArenaStep0
    \/ TransformTensorStepD
    \/ ComputeForwardStepM
    \/ BatchStepD
    \/ SubmitStepD

SpecSemaphores == InitOperator /\ [][NextSemaphores]_vars

\* the submissions that signal semaphore s, and those that wait on it
Signallers(s) == {i \in 1..Len(gpu.subs) : s \in gpu.subs[i].signal}
Waiters(s) == {i \in 1..Len(gpu.subs) : s \in gpu.subs[i].wait}

\* the positions at which submission i was handed to a queue
HandedAt(i) == {k \in 1..Len(gpu.handed) : gpu.handed[k] = i}

\* the semaphores the operator has taken
Taken == {gpu.taken[k] : k \in 1..Len(gpu.taken)}

\* the operator has made its last submit and is at its waitIdle
AllHanded == gpu.waiting /\ call.func # "none"

\* C35: within one operator every semaphore taken is a different one, is signalled by
\* exactly one submission and waited on by exactly one submission, and the submission
\* that signals it is handed to its queue before the one that waits on it.
C35_SemaphoresOnceInOrder ==
    /\ Cardinality(Taken) = Len(gpu.taken)
    /\ \A i \in 1..Len(gpu.subs) :
          /\ gpu.subs[i].wait \cup gpu.subs[i].signal \subseteq Taken
          /\ Cardinality(HandedAt(i)) <= 1
    /\ \A s \in Taken :
          /\ Cardinality(Signallers(s)) <= 1
          /\ Cardinality(Waiters(s)) <= 1
          /\ AllHanded => /\ Cardinality(Signallers(s)) = 1
                          /\ Cardinality(Waiters(s)) = 1
                          /\ \A i \in Signallers(s) \cup Waiters(s) : HandedAt(i) # {}
          /\ \A w \in Waiters(s) : \A kw \in HandedAt(w) :
                \E g \in Signallers(s) : \E kg \in HandedAt(g) : kg < kw

\* a product of quantized weights in four batches is at its waitIdle on a device whose
\* transfer queues are the compute queue: it took semaphores from the rings of the three
\* queue structs and the later batches were handed together at the end
C35_Witness ==
    /\ AllHanded
    /\ call.func = "ggml_vk_mul_mat_q_f16"
    /\ Len(gpu.taken) >= 4 * MaxBatch * MaxBatch
    /\ {s[1] : s \in Taken} = QueueNames
    /\ gpu.queues.tr0q = gpu.queues.compq

\* ------------------------------------------------------------------------
\* Specification of one operator on a device that runs each queue in order
\* ------------------------------------------------------------------------
\* the submissions handed to the VkQueue of submission i before it
HandedBefore(i) ==
    {gpu.handed[k] : k \in {j \in 1..Len(gpu.handed) :
        /\ \E ki \in HandedAt(i) : j < ki
        /\ gpu.queues[gpu.subs[gpu.handed[j]].q].queue = gpu.queues[gpu.subs[i].q].queue}}

\* the device starts a submission whose wait semaphores are all signaled, once every
\* submission handed to the same VkQueue before it has started
StartStepF ==
    \E i \in 1..Len(gpu.subs) :
        /\ gpu.subs[i].status = "submitted"
        /\ gpu.subs[i].wait \subseteq gpu.signaled
        /\ \A j \in HandedBefore(i) : gpu.subs[j].status \in {"running", "done"}
        /\ UNCHANGED threads
        /\ gpu' = [gpu EXCEPT !.subs[i].status = "running",
                              !.signaled = @ \ gpu.subs[i].wait]
        /\ UNCHANGED <<live, poolVars, hostVars, vk_device, vk_pipeline, tensors, opVars,
                       histVars, memory>>

\* the device has three distinct queues, or both transfer slots are the compute queue
LiveLayouts == {QueueLayout(FALSE, VK_TRANSFER_QUEUE_COUNT), QueueLayout(TRUE, 1)}

InitLive ==
    /\ InitBackend
    /\ InitDevice(VK_DEVICE_DESCRIPTOR_POOL_MODE_UNKNOWN)
    /\ no_pinned = FALSE
    /\ \E layout \in LiveLayouts : gpu = InitGpu(layout)
    /\ threads = NoThreads

\* one node with activations of 32-bit floats, in one batch, in MaxBatch batches, or in
\* more batches than VK_SUBMIT_BATCH
LiveBatches == {<<1, 1>>, <<MaxBatch, 1>>, <<MaxBatch, MaxBatch>>}
LiveTypes == {GGML_TYPE_F32, GGML_TYPE_Q4_0}

\* a tensor of weights is made resident before the operator runs
TransformTensorStepL ==
    /\ call.count = 0
    /\ vk_pinned_memory # <<>>
    /\ TransformTensor(Addr(Mem, 3), HostTensor(GGML_TYPE_F32, GGML_BACKEND_GPU, <<32, 32, 1, 1>>, 0))
    /\ UNCHANGED <<memory, histVars>>

ComputeForwardStepL ==
    /\ call.count = 0
    /\ vk_pinned_memory # <<>>
    /\ \E b \in LiveBatches, op \in {GGML_OP_MUL, GGML_OP_MUL_MAT} :
        \E tensor \in NodesOf(op, Shape(32, 32, 32), b, "heap", "pinned", LiveTypes,
                              {GGML_BACKEND_CPU}, {GGML_TYPE_F32}, {GGML_BACKEND_CPU}) :
            /\ tensor.src1.type = GGML_TYPE_F32
            /\ ComputeForward(NoParams, tensor)

NextLive ==
    \/ HostArenaStep0
    \/ TransformTensorStepL
    \/ ComputeForwardStepL
    \/ BatchStepD
    \/ SubmitStepD
    \/ FinishStepD
    \/ StartStepF
    \/ CompleteStep

\* the conditions under which the host can make its next step: an iteration of the loop,
\* the submits after the loop, and the return of waitIdle with what follows it
CanBatch == call.pc = "loop" /\ HandlesLeft(2)
CanSubmit == call.pc = "end" /\ ~gpu.waiting
CanFinish ==
    /\ call.pc = "end"
    /\ gpu.waiting
    /\ Idle(gpu, Head(FromWait(End(call.func, call.node))).q)

\* the host thread keeps running: weak fairness of its three steps, WF_vars(A) written
\* out as []<>~ENABLED <<A>>_vars \/ []<><<A>>_vars with the enabling condition of each
\* step in place of ENABLED
HostRuns ==
    /\ ([]<>~CanBatch) \/ ([]<><<BatchStepD>>_vars)
    /\ ([]<>~CanSubmit) \/ ([]<><<SubmitStepD>>_vars)
    /\ ([]<>~CanFinish) \/ ([]<><<FinishStepD>>_vars)

\* the host goes on whenever it can, and the device starts and completes what it can
SpecLive ==
    /\ InitLive
    /\ [][NextLive]_vars
    /\ HostRuns
    /\ WF_vars(StartStepF)
    /\ WF_vars(CompleteStep)

\* an operator is running
Running == call.pc \in {"loop", "end"}

\* the operator has returned, or an assertion or a fault has ended the process
Terminated == call.pc \in {"returned", "aborted"}

\* C36: on a device that runs each queue in order and keeps making progress, every
\* operator that was started terminates, its final waitIdle returns, and every submission
\* handed to a queue completes, with three distinct queues and with both transfer slots
\* on the compute queue, for every batch count.
C36_OperatorsTerminate ==
    /\ Running ~> Terminated
    /\ gpu.waiting ~> ~gpu.waiting
    /\ (InFlight(gpu.subs) # {}) ~> (InFlight(gpu.subs) = {})

\* a product of quantized weights in four batches has returned on a device whose two
\* transfer slots are the compute queue, with every submission completed
C36_Witness ==
    /\ call.pc = "returned"
    /\ call.func = "ggml_vk_mul_mat_q_f16"
    /\ call.it = MaxBatch * MaxBatch
    /\ gpu.queues.tr0q = gpu.queues.compq
    /\ gpu.queues.tr1q = gpu.queues.compq
    /\ Len(gpu.subs) >= 4 * MaxBatch * MaxBatch
    /\ \A i \in 1..Len(gpu.subs) : gpu.subs[i].status = "done"

\* ------------------------------------------------------------------------
\* Specification of uploads to an offset of a device buffer
\* ------------------------------------------------------------------------
\* ggml_vk_buffer_write_2d_async(&name, offset, ptr, ..., q, {}, {}): own as for H2D
Write2D(name, ptr, q, own) ==
    [NoStmt EXCEPT !.do = "h2d_tensor_2d", !.name = name, !.ptr = ptr, !.q = q, !.own = own,
                   !.uses = {name}]

\* bytes of the buffer a caller uploads its batches to: two batches of MaxRows rows of
\* MaxWidth bytes padded to 4
UploadBytes == 2 * ggml_vk_align_size(MaxWidth, 4) * MaxRows

\* destination offsets: 0 for the first upload of a caller (its first batch), an odd
\* place or the second half of the buffer for its later ones
UploadOffsets == IF hist = <<>> THEN {0} ELSE {1, UploadBytes \div 2}

\* a caller that uploads to an offset of a buffer as the operators do for each batch: d_X
\* from the pool the first time and the buffer it holds afterwards, the write on transfer
\* queue 0, submit, waitIdle, queue cleanup
UploadCaller(write) ==
    (IF held = <<>> THEN <<PoolMalloc("d_X", UploadBytes)>>
     ELSE <<TensorBuffer("d_X", held[1])>>)
    \o <<write, PushBack("seqs"), Submit("tr0q", "seqs"), WaitIdle("tr0q"),
         QueueCleanup("tr0q")>>

\* the buffers an upload creates: the device buffer the first time, and its staging
\* sibling when the call makes one
UploadCreates(dst) ==
    IF held = <<>>
    THEN {dst.buffer} \cup (IF dst.sb_write # 0 THEN {dst.sb_write} ELSE {})
    ELSE IF dst.sb_write # held[1].sb_write THEN {dst.sb_write} ELSE {}

\* the rows of width bytes at src with stride spitch
SourceRows(src, spitch, width, height) ==
    [r \in 1..height |-> HostBytes(memory, vk_pinned_memory, src + (r - 1) * spitch, width)]

\* the upload has been recorded, submitted and has completed; w is what the write did
\* at the level of bytes, rec what is remembered of the call
Uploaded(m, dst, before, w, rec) ==
    /\ m.line = 0
    /\ Commit(m)
    /\ held' = <<dst>>
    /\ memory' = ExecuteAll(w.mem, w.cmds)
    /\ hist' = Append(hist, [call |-> rec.call])
    /\ last' = [rec EXCEPT !.pre = before[dst.buffer]]

\* a caller uploads height rows of width bytes to an offset with
\* ggml_vk_buffer_write_2d_async; a stride of 0 with one row is ggml_vk_buffer_write_async
Write2DStep ==
    /\ call.pc = "idle"
    /\ Len(hist) < MaxBatch
    /\ HandlesLeft(2)
    /\ \E width \in PadWidths, height \in PadHeights, offset \in UploadOffsets :
        \E spitch \in {width, width + 1} \cup (IF height = 1 THEN {0} ELSE {}) :
            \E src \in HostPlaces(spitch * (height - 1) + width) :
                LET m == Exec(Machine(IdleCall), UploadCaller(Write2D("d_X", src, "tr0q", TRUE)),
                              vk_pinned_memory)
                    dst == m.bufs["d_X"]
                    before == NewBuffers(memory, UploadCreates(dst), dst.size, m.live)
                    w == ggml_vk_buffer_write_2d_async_bytes(before, vk_pinned_memory, dst,
                                                             offset, src, spitch, width, height)
                IN Uploaded(m, dst, before, w,
                            [call |-> "buffer_write_2d_async", buffer |-> dst.buffer,
                             offset |-> offset, pinned |-> (src # HeapPtr), width |-> width,
                             padded_width |-> width, height |-> height, spitch |-> spitch,
                             rows |-> SourceRows(src, spitch, width, height), pre |-> <<>>])
    /\ UNCHANGED <<hostVars, tensors, call, gpu, threads>>

\* a caller uploads height rows of width bytes, each padded to a multiple of align, to
\* an offset with ggml_vk_buffer_write_2d_async_zeropad
Write2DZeropadStep ==
    /\ call.pc = "idle"
    /\ Len(hist) < MaxBatch
    /\ HandlesLeft(2)
    /\ \E width \in PadWidths, height \in PadHeights, offset \in UploadOffsets :
        \E spitch \in {width, width + 1}, align \in PadAligns :
            \E src \in HostPlaces(spitch * (height - 1) + width) :
                LET m == Exec(Machine(IdleCall),
                              UploadCaller(WriteZeropad("d_X", src, "tr0q", TRUE)),
                              vk_pinned_memory)
                    dst == m.bufs["d_X"]
                    before == NewBuffers(memory, UploadCreates(dst), dst.size, m.live)
                    w == ggml_vk_buffer_write_2d_async_zeropad_bytes(
                            before, vk_pinned_memory, dst, offset, src, spitch, width, height,
                            align)
                IN Uploaded(m, dst, before, w,
                            [call |-> "buffer_write_2d_async_zeropad", buffer |-> dst.buffer,
                             offset |-> offset, pinned |-> (src # HeapPtr), width |-> width,
                             padded_width |-> ggml_vk_align_size(width, align),
                             height |-> height, spitch |-> spitch,
                             rows |-> SourceRows(src, spitch, width, height), pre |-> <<>>])
    /\ UNCHANGED <<hostVars, tensors, call, gpu, threads>>

UploadMallocStep == hist = <<>> /\ Len(vk_pinned_memory) < 1 /\ HostMallocStepB

NextUpload == UploadMallocStep \/ Write2DStep

SpecUpload == InitBytes /\ [][NextUpload]_vars

NextUploadZeropad == UploadMallocStep \/ Write2DZeropadStep

SpecUploadZeropad == InitBytes /\ [][NextUploadZeropad]_vars

\* the destination range of the last upload: bytes offset + 1 .. offset + P * H
InRange(j) == j > last.offset /\ j <= last.offset + last.padded_width * last.height

\* the last call was an upload of the kind from a source that is pinned or not
LastUpload(kind, pinned) == last.call = kind /\ last.pinned = pinned

\* row r of the last upload is in the destination, rows pitch bytes apart
RowLanded(r, pitch) ==
    \A j \in 1..last.width :
        memory[last.buffer][last.offset + (r - 1) * pitch + j] = last.rows[r][j]

\* C37: after a ggml_vk_buffer_write_2d_async from a non-pinned source to any offset has
\* completed, the destination bytes [offset, offset + width*height) hold the source rows
\* (the staging range the host filled is the range the device copy read).
C37_StagedRowsLand ==
    LastUpload("buffer_write_2d_async", FALSE) =>
        \A r \in 1..last.height : RowLanded(r, last.width)

\* what holds of the staged write: the rows land when the rows are contiguous in the
\* source (width == spitch), and when the offset is 0
C37_StagedRowsLandContiguousOrAtZero ==
    /\ LastUpload("buffer_write_2d_async", FALSE)
    /\ last.spitch = last.width \/ last.offset = 0
    => \A r \in 1..last.height : RowLanded(r, last.width)

\* C38: a ggml_vk_buffer_write_2d_async_zeropad to an offset leaves every byte of the
\* destination outside [offset, offset + P*H), P = ceil(W/A)*A, as it was, for pinned and
\* for non-pinned sources, with and without padding.
C38_ZeropadFrame ==
    last.call = "buffer_write_2d_async_zeropad"
    => \A j \in 1..UploadBytes : ~InRange(j) => memory[last.buffer][j] = last.pre[j]

\* what holds of the padded write: the frame is kept from a non-pinned source, and from
\* a pinned one when there is no padding
C38_ZeropadFrameStagedOrUnpadded ==
    /\ last.call = "buffer_write_2d_async_zeropad"
    /\ ~last.pinned \/ last.padded_width = last.width
    => \A j \in 1..UploadBytes : ~InRange(j) => memory[last.buffer][j] = last.pre[j]

\* ------------------------------------------------------------------------
\* Specification of the queues ggml_vk_init requests and fetches
\* ------------------------------------------------------------------------
\* transfer_queue_count of ggml_vk_init for a transfer family of queueCount queues that
\* is the compute family or not
TransferQueueCount(same_family, queueCount) ==
    IF VK_TRANSFER_QUEUE_COUNT > queueCount
    THEN (IF same_family THEN queueCount - 1 ELSE queueCount)
    ELSE VK_TRANSFER_QUEUE_COUNT

\* vk::DeviceQueueCreateInfo: the family and the number of queues requested from it
DeviceQueueCreateInfo(queueFamilyIndex, queueCount) ==
    [queueFamilyIndex |-> queueFamilyIndex, queueCount |-> queueCount]

\* device_queue_create_infos of ggml_vk_init
DeviceQueueCreateInfos(compute_queue_family_index, transfer_queue_family_index, transfer_queue_count) ==
    IF compute_queue_family_index # transfer_queue_family_index
    THEN <<DeviceQueueCreateInfo(compute_queue_family_index, 1),
           DeviceQueueCreateInfo(transfer_queue_family_index, transfer_queue_count)>>
    ELSE <<DeviceQueueCreateInfo(transfer_queue_family_index, 1 + transfer_queue_count)>>

\* the (family, index) pairs the ggml_vk_create_queue calls of ggml_vk_init pass to
\* getQueue: the compute queue, and the transfer queues when there are any
GetQueueCalls(compute_queue_family_index, transfer_queue_family_index, transfer_queue_count) ==
    LET queue_index_offset ==
            IF compute_queue_family_index = transfer_queue_family_index THEN 1 ELSE 0
    IN <<<<compute_queue_family_index, 0>>>> \o
       (IF transfer_queue_count > 0
        THEN [i \in 1..VK_TRANSFER_QUEUE_COUNT |->
                <<transfer_queue_family_index,
                  (queue_index_offset + (i - 1)) % transfer_queue_count>>]
        ELSE <<>>)

\* ggml_vk_init from transfer_queue_count to the three vk_queue structs: the logical
\* device is created with the create infos and the queues are fetched
CreateDeviceStep ==
    /\ gpu.pc = "transfer"
    /\ LET cfi == gpu.compute_queue_family_index
           tfi == gpu.transfer_queue_family_index
           count == TransferQueueCount(cfi = tfi, gpu.queue_family_props[tfi + 1].queueCount)
       IN IF cfi # tfi /\ ~(count > 0)
          THEN /\ gpu' = [gpu EXCEPT !.pc = "aborted"]
               /\ last' = NoCall
          ELSE /\ gpu' = [gpu EXCEPT
                            !.pc = "queues",
                            !.queues = QueueLayout(cfi = tfi,
                                                   gpu.queue_family_props[tfi + 1].queueCount)]
               /\ last' = [call |-> "ggml_vk_init", transfer_queue_count |-> count,
                           create_infos |-> DeviceQueueCreateInfos(cfi, tfi, count),
                           get_queue |-> GetQueueCalls(cfi, tfi, count)]
    /\ FamilyFrame

NextCreate == FindComputeStep \/ FindTransferStep \/ CreateDeviceStep

SpecCreate == InitInit /\ [][NextCreate]_vars

\* ggml_vk_init has created the logical device and fetched its queues
DeviceCreated == gpu.pc = "queues" /\ last.call = "ggml_vk_init"

\* the create infos of the logical device, and the getQueue calls
CreateInfos == {last.create_infos[i] : i \in 1..Len(last.create_infos)}
Fetched == {last.get_queue[i] : i \in 1..Len(last.get_queue)}

\* every queue index passed to getQueue is below the number of queues requested from
\* its family
FetchedWereRequested ==
    \A g \in Fetched :
        \E info \in CreateInfos : info.queueFamilyIndex = g[1] /\ g[2] < info.queueCount

\* C39: for every queue-family layout ggml_vk_init accepts, the number of queues it
\* requests from a family does not exceed the family's queueCount, and every queue index
\* passed to getQueue is below the number of queues requested from that family.
C39_QueuesWithinFamily ==
    DeviceCreated =>
        /\ \A info \in CreateInfos :
              info.queueCount <= gpu.queue_family_props[info.queueFamilyIndex + 1].queueCount
        /\ FetchedWereRequested

\* what holds: the indices fetched were requested, and the request stays within the
\* family unless the compute family is also the transfer family and has exactly
\* VK_TRANSFER_QUEUE_COUNT queues
C39_QueuesWithinFamilyUnlessExactlyTwo ==
    DeviceCreated =>
        /\ FetchedWereRequested
        /\ \A info \in CreateInfos :
              \/ info.queueCount <= gpu.queue_family_props[info.queueFamilyIndex + 1].queueCount
              \/ /\ gpu.compute_queue_family_index = gpu.transfer_queue_family_index
                 /\ gpu.queue_family_props[info.queueFamilyIndex + 1].queueCount
                        = VK_TRANSFER_QUEUE_COUNT
====
